---------------------------- MODULE Spec2Model ----------------------------
(***************************************************************************)
(* Model of src/index.tsx: the exam-document organizer.                    *)
(*                                                                         *)
(* The document is the React state `shelves` of App (Shelf -> Topic ->     *)
(* FileRow -> FileMeta), persisted to localStorage by the save effect and  *)
(* accompanied by an IndexedDB blob store keyed by FileMeta id.            *)
(*                                                                         *)
(* Every handler is a closure over the props of the render it was created  *)
(* in.  A synchronous handler runs against the latest render, i.e. the     *)
(* current state.  A handler that waits (FileReader.onload, an IndexedDB   *)
(* request) finishes against the render it STARTED in: its continuation    *)
(* calls the onUpdate/updateTopic/updateShelf closures of that render,     *)
(* which hold the `shelves`, `shelf`, `topic` and `row` of that render.    *)
(* A pending operation therefore carries `snap`, the shelves of the render *)
(* it started in.                                                          *)
(*                                                                         *)
(* Strings are sequences of one-character strings, so that toLowerCase,    *)
(* includes and substring are computed.  Ids produced by                   *)
(* crypto.randomUUID() are fresh integers per kind of node; the id         *)
(* 'shelf-default' is 0.  Fields no handler reads (color, createdAt,       *)
(* order, timestamp, isCollapsed) are left out of the records.             *)
(***************************************************************************)
EXTENDS Integers, Sequences, FiniteSets, TLC

VARIABLES
  shelves,        \* App state `shelves`
  activeShelfId,  \* App state `activeShelfId` (NoId models '')
  booted,         \* whether the mount effects have run
  storage,        \* localStorage[STORAGE_KEY]: Absent, Corrupt or a stored list
  blobs,          \* IndexedDB object store 'files': file id -> content
  pending,        \* asynchronous operations in flight, in start order
  fresh,          \* number of ids handed out so far, per kind of node
  search,         \* ShelfDetail state `search`
  filterTopic,    \* ShelfDetail state `filterTopic`
  filterFile,     \* ShelfDetail state `filterFile`
  filterAnswer,   \* ShelfDetail state `filterAnswer`
  lastOp,         \* history: the handler that ran last, with its arguments
  added,          \* history: topic id -> shelf id, for every topic ever added
  deleted,        \* history: ids of the topics whose deleteTopic has completed
  quotaExceeded,  \* environment: localStorage.setItem throws
  notice,         \* the last alert shown to the user
  link,           \* the href of the last download link clicked
  uncaught        \* whether an error has left a handler uncaught

vars == <<shelves, activeShelfId, booted, storage, blobs, pending, fresh,
          search, filterTopic, filterFile, filterAnswer, lastOp, added, deleted,
          quotaExceeded, notice, link, uncaught>>

view == <<search, filterTopic, filterFile, filterAnswer>>
hist == <<added, deleted>>
env == <<quotaExceeded, link, uncaught>>

--------------------------------------------------------------------------
(* Bounds of the model *)

MaxShelves == 1   \* shelves created by handleAddShelf
MaxTopics  == 2   \* topics created by addTopic
MaxRows    == 2   \* rows created (addNewRow, paste, processFiles)
MaxFiles   == 2   \* FileMeta ids created (uploads, paste, processFiles)
MaxPending == 2   \* asynchronous operations in flight at once
MaxWaits   == 2   \* handlers that have had to wait, over the session
MaxSortRows == 3  \* rows of the topic sortFilesByName is applied to

--------------------------------------------------------------------------
(* Values *)

NoId == -1                       \* activeShelfId '' / no id
DefaultShelfId == 0              \* 'shelf-default'
Undefined == "undefined"         \* FileMeta.content absent
Absent == "absent"               \* localStorage.getItem returns null
Corrupt == "corrupt"             \* a stored string JSON.parse rejects

\* FileMeta | null: null is the record NoFile
NoFile == [id |-> NoId, name |-> <<>>, type |-> "none", content |-> Undefined]

IsFile(f) == f.id # NoId

FileMeta(id, name, type, content) ==
  [id |-> id, name |-> name, type |-> type, content |-> content]

FileRow(id, q, a, done) ==
  [id |-> id, questionFile |-> q, answerFile |-> a, isCompleted |-> done]

Topic(id, name, files) == [id |-> id, name |-> name, files |-> files]

Shelf(id, name, topics) == [id |-> id, name |-> name, topics |-> topics]

DEFAULT_SHELF == Shelf(DefaultShelfId, <<"D">>, <<>>)

--------------------------------------------------------------------------
(* Sequence and string helpers *)

Range(s) == {s[i] : i \in DOMAIN s}
Max(a, b) == IF a >= b THEN a ELSE b

\* Array.prototype.filter is Sequences!SelectSeq; Array.prototype.map is a
\* function over DOMAIN.

\* { ...obj, ...updates }
Merge(obj, updates) ==
  [k \in DOMAIN obj \cup DOMAIN updates |->
     IF k \in DOMAIN updates THEN updates[k] ELSE obj[k]]

\* String.prototype.toLowerCase over the alphabet of the model
LowerChar(c) == IF c = "A" THEN "a" ELSE IF c = "B" THEN "b" ELSE c
toLowerCase(str) == [i \in DOMAIN str |-> LowerChar(str[i])]

\* String.prototype.includes
includes(str, sub) ==
  \E k \in 0..(Len(str) - Len(sub)) :
     \A i \in 1..Len(sub) : str[k + i] = sub[i]

\* String.prototype.substring(0, n)
substring(str, n) == IF Len(str) <= n THEN str ELSE SubSeq(str, 1, n)

\* String.prototype.localeCompare over the alphabet of the model: the
\* letters are compared first, the shorter of two strings that agree coming
\* first; strings of the same letters are then told apart by case, lower
\* case before upper case
CharRank(c) ==
  CASE c = "a" -> 1 [] c = "A" -> 2 [] c = "b" -> 3 [] c = "B" -> 4 [] OTHER -> 5

RECURSIVE RankCompare(_, _)
RankCompare(x, y) ==
  IF x = <<>> /\ y = <<>> THEN 0
  ELSE IF x = <<>> THEN -1
  ELSE IF y = <<>> THEN 1
  ELSE IF CharRank(Head(x)) < CharRank(Head(y)) THEN -1
  ELSE IF CharRank(Head(x)) > CharRank(Head(y)) THEN 1
  ELSE RankCompare(Tail(x), Tail(y))

localeCompare(x, y) ==
  LET letters == RankCompare(toLowerCase(x), toLowerCase(y))
  IN IF letters # 0 THEN letters ELSE RankCompare(x, y)

--------------------------------------------------------------------------
(* Blob store: saveFileContent / getFileContent / deleteFileContent *)

\* store.put(content, id)
saveFileContent(store, id, content) ==
  [k \in DOMAIN store \cup {id} |-> IF k = id THEN content ELSE store[k]]

\* store.get(id): undefined when the key is absent
getFileContent(store, id) ==
  IF id \in DOMAIN store THEN store[id] ELSE Undefined

\* store.delete(id)
deleteFileContent(store, id) ==
  [k \in DOMAIN store \ {id} |-> store[k]]

--------------------------------------------------------------------------
(* Structural store: saveToStorage / loadFromStorage *)

\* file.content of a FileMeta that may have been parsed without the key
ContentOf(f) == IF "content" \in DOMAIN f THEN f.content ELSE Undefined

\* A variant that writes the FileMeta as it is held in memory
StripFileKept(f) == IF IsFile(f) THEN f ELSE NoFile

\* questionFile ? { ...questionFile, content: undefined } : null
StripFile(f) ==
  IF IsFile(f) THEN Merge(f, [content |-> Undefined]) ELSE NoFile

\* A variant that writes the question slot only
CleanRowQuestionOnly(file) ==
  Merge(file, [questionFile |-> StripFile(file.questionFile),
               answerFile   |-> NoFile])

\* { ...file, questionFile: ..., answerFile: ... }
CleanRow(file) ==
  Merge(file, [questionFile |-> StripFile(file.questionFile),
               answerFile   |-> StripFile(file.answerFile)])

CleanTopic(topic) ==
  Merge(topic, [files |-> [i \in DOMAIN topic.files |-> CleanRow(topic.files[i])]])

CleanShelf(shelf) ==
  Merge(shelf, [topics |-> [i \in DOMAIN shelf.topics |-> CleanTopic(shelf.topics[i])]])

\* cleanData of saveToStorage
cleanData(data) == [i \in DOMAIN data |-> CleanShelf(data[i])]

\* JSON.stringify of a FileMeta | null: a key whose value is undefined is
\* not written; null is written as null
JsonFile(f) ==
  IF ~IsFile(f) THEN NoFile
  ELSE IF ContentOf(f) = Undefined
       THEN [k \in DOMAIN f \ {"content"} |-> f[k]]
       ELSE f

JsonRow(r) ==
  Merge(r, [questionFile |-> JsonFile(r.questionFile),
            answerFile   |-> JsonFile(r.answerFile)])

JsonTopic(t) == Merge(t, [files |-> [i \in DOMAIN t.files |-> JsonRow(t.files[i])]])

JsonShelf(s) == Merge(s, [topics |-> [i \in DOMAIN s.topics |-> JsonTopic(s.topics[i])]])

\* JSON.stringify(data): the stored text, kept as the tree it denotes
JSONstringify(data) ==
  [kind |-> "json", value |-> [i \in DOMAIN data |-> JsonShelf(data[i])]]

\* localStorage.setItem(STORAGE_KEY, JSON.stringify(cleanData))
saveToStorage(data) == JSONstringify(cleanData(data))

\* The save effect: if (shelves.length > 0) saveToStorage(shelves)
SaveEffect(newShelves, stored) ==
  IF Len(newShelves) > 0 THEN saveToStorage(newShelves) ELSE stored

\* A variant in which a write that fails removes the key
SaveOutcomeCleared(full, newShelves, stored) ==
  IF Len(newShelves) > 0 /\ full THEN [kind |-> Absent]
  ELSE SaveEffect(newShelves, stored)

\* The stored value after the save effect when setItem throws (`full`) or
\* not: the exception is caught in saveToStorage and the key keeps its value
SaveOutcome(full, newShelves, stored) ==
  IF Len(newShelves) > 0 /\ full THEN stored
  ELSE SaveEffect(newShelves, stored)

\* The alert of the catch block of saveToStorage
QuotaAlert == "quota"
NotFoundAlert == "notfound"
NoAlert == "none"

SaveNotice(full, newShelves, shown) ==
  IF Len(newShelves) > 0 /\ full THEN QuotaAlert ELSE shown

\* A variant that seeds the default shelf only when the key is absent
loadFromStorageStrict(stored) ==
  IF stored.kind = "json" THEN stored.value
  ELSE IF stored.kind = Absent THEN <<DEFAULT_SHELF>> ELSE <<>>

\* data ? JSON.parse(data) : [DEFAULT_SHELF], and [DEFAULT_SHELF] when
\* JSON.parse throws
loadFromStorage(stored) ==
  IF stored.kind = "json" THEN stored.value ELSE <<DEFAULT_SHELF>>

--------------------------------------------------------------------------
(* App: activeShelf, handleAddShelf, updateShelf, onUpdateName, deleteShelf *)

HasShelf(shs, id) == \E i \in DOMAIN shs : shs[i].id = id

\* shelves.find(s => s.id === id), for an id that is present
ShelfById(shs, id) ==
  shs[CHOOSE i \in DOMAIN shs :
        shs[i].id = id /\ \A j \in 1..(i-1) : shs[j].id # id]

\* [...shelves, newShelf]
handleAddShelf(shs, id, name) == Append(shs, Shelf(id, name, <<>>))

\* shelves.map(s => s.id === updatedShelf.id ? updatedShelf : s)
updateShelf(shs, updatedShelf) ==
  [i \in DOMAIN shs |-> IF shs[i].id = updatedShelf.id THEN updatedShelf ELSE shs[i]]

\* shelves.map(s => s.id === id ? {...s, name} : s)
onUpdateName(shs, id, name) ==
  [i \in DOMAIN shs |-> IF shs[i].id = id THEN Merge(shs[i], [name |-> name]) ELSE shs[i]]

\* The ids deleteFileContent is awaited for, row by row: the question file's,
\* then the answer file's
RowFileIds(file) ==
  (IF IsFile(file.questionFile) THEN <<file.questionFile.id>> ELSE <<>>)
  \o (IF IsFile(file.answerFile) THEN <<file.answerFile.id>> ELSE <<>>)

RECURSIVE TopicFileIds(_)
TopicFileIds(files) ==
  IF files = <<>> THEN <<>>
  ELSE RowFileIds(Head(files)) \o TopicFileIds(Tail(files))

RECURSIVE ShelfFileIds(_)
ShelfFileIds(topics) ==
  IF topics = <<>> THEN <<>>
  ELSE TopicFileIds(Head(topics).files) \o ShelfFileIds(Tail(topics))

\* newShelves of deleteShelf: shelves.filter(s => s.id !== id)
deleteShelf(shs, id) == SelectSeq(shs, LAMBDA s : s.id # id)

\* newShelves.length > 0 ? newShelves[0].id : ''
ActiveAfterDelete(newShelves) ==
  IF Len(newShelves) > 0 THEN newShelves[1].id ELSE NoId

--------------------------------------------------------------------------
(* ShelfDetail: addTopic, updateTopic, deleteTopic, moveTopic *)

DigitChar(n) ==
  CASE n = 0 -> "0" [] n = 1 -> "1" [] n = 2 -> "2" [] n = 3 -> "3"
    [] n = 4 -> "4" [] n = 5 -> "5" [] n = 6 -> "6" [] n = 7 -> "7"
    [] n = 8 -> "8" [] OTHER -> "9"

\* `Chủ đề mới ${n}`; the fixed prefix is written "T"
NewTopicName(n) == <<"T", DigitChar(n)>>

HasTopic(shelf, topicId) == \E i \in DOMAIN shelf.topics : shelf.topics[i].id = topicId

TopicById(shelf, topicId) ==
  shelf.topics[CHOOSE i \in DOMAIN shelf.topics :
                 shelf.topics[i].id = topicId
                 /\ \A j \in 1..(i-1) : shelf.topics[j].id # topicId]

\* { ...shelf, topics: [newTopic, ...shelf.topics] }
addTopic(shelf, id) ==
  Merge(shelf, [topics |->
     <<Topic(id, NewTopicName(Len(shelf.topics) + 1), <<>>)>> \o shelf.topics])

\* { ...shelf, topics: shelf.topics.map(t => t.id === topicId ? {...t, ...updates} : t) }
updateTopic(shelf, topicId, updates) ==
  Merge(shelf, [topics |->
     [i \in DOMAIN shelf.topics |->
        IF shelf.topics[i].id = topicId
        THEN Merge(shelf.topics[i], updates) ELSE shelf.topics[i]]])

\* { ...shelf, topics: shelf.topics.filter(t => t.id !== topicId) }
deleteTopic(shelf, topicId) ==
  Merge(shelf, [topics |-> SelectSeq(shelf.topics, LAMBDA t : t.id # topicId)])

\* [a[i], a[j]] = [a[j], a[i]] on a copy, 1-based positions
Swap(a, i, j) ==
  [k \in DOMAIN a |-> IF k = i THEN a[j] ELSE IF k = j THEN a[i] ELSE a[k]]

\* moveTopic without its boundary tests: the neighbour of the first topic
\* is taken to be the last one, and the other way round
MovedTopicsUnguarded(topics, index, direction) ==
  IF direction = "up"
  THEN Swap(topics, index + 1, IF index > 0 THEN index ELSE Len(topics))
  ELSE Swap(topics, index + 1, IF index < Len(topics) - 1 THEN index + 2 ELSE 1)

\* newTopics of moveTopic; `index` is 0-based as in the source
MovedTopics(topics, index, direction) ==
  IF direction = "up" /\ index > 0
  THEN Swap(topics, index + 1, index)
  ELSE IF direction = "down" /\ index < Len(topics) - 1
  THEN Swap(topics, index + 1, index + 2)
  ELSE topics

moveTopic(shelf, index, direction) ==
  Merge(shelf, [topics |-> MovedTopics(shelf.topics, index, direction)])

--------------------------------------------------------------------------
(* ShelfDetail: processedTopics, the filter engine *)

\* f.questionFile?.name.toLowerCase().includes(search.toLowerCase())
NameIncludes(f, s) == IsFile(f) /\ includes(toLowerCase(f.name), toLowerCase(s))

matchSearch(f, s) ==
  IF s # <<>>
  THEN NameIncludes(f.questionFile, s) \/ NameIncludes(f.answerFile, s)
  ELSE TRUE

matchFileStatus(f, fFile) ==
  IF fFile = "all" THEN TRUE
  ELSE IF fFile = "completed" THEN f.isCompleted
  ELSE ~f.isCompleted

matchAnswerStatus(f, fAnswer) ==
  IF fAnswer = "all" THEN TRUE
  ELSE IF fAnswer = "has" THEN IsFile(f.answerFile)
  ELSE ~IsFile(f.answerFile)

\* A variant in which one passing status filter is enough
visibleFilesEither(topic, s, fFile, fAnswer) ==
  SelectSeq(topic.files,
            LAMBDA f : matchSearch(f, s) /\ (matchFileStatus(f, fFile)
                                             \/ matchAnswerStatus(f, fAnswer)))

\* 1. Filter Files inside Topic first
visibleFiles(topic, s, fFile, fAnswer) ==
  SelectSeq(topic.files,
            LAMBDA f : matchSearch(f, s) /\ matchFileStatus(f, fFile)
                       /\ matchAnswerStatus(f, fAnswer))

\* A variant without the total > 0 test
isTopicCompletedVacuous(topic) ==
  Len(topic.files) = Len(SelectSeq(topic.files, LAMBDA f : f.isCompleted))

\* 2. total > 0 && total === completed
isTopicCompleted(topic) ==
  LET total == Len(topic.files)
      completed == Len(SelectSeq(topic.files, LAMBDA f : f.isCompleted))
  IN total > 0 /\ total = completed

matchTopicStatus(topic, fTopic) ==
  IF fTopic = "all" THEN TRUE
  ELSE IF fTopic = "completed" THEN isTopicCompleted(topic)
  ELSE ~isTopicCompleted(topic)

\* 3. Match Topic Name with Search
matchTopicName(topic, s) ==
  IF s # <<>> THEN includes(toLowerCase(topic.name), toLowerCase(s)) ELSE FALSE

\* Visibility Decision
shouldShow(topic, s, fTopic, fFile, fAnswer) ==
  IF matchTopicStatus(topic, fTopic)
  THEN IF s # <<>>
       THEN matchTopicName(topic, s) \/ Len(visibleFiles(topic, s, fFile, fAnswer)) > 0
       ELSE IF fFile # "all" \/ fAnswer # "all"
            THEN Len(visibleFiles(topic, s, fFile, fAnswer)) > 0
            ELSE TRUE
  ELSE FALSE

\* A variant in which a name match shows every row of the topic
finalVisibleFilesAll(topic, s, fFile, fAnswer) ==
  IF matchTopicName(topic, s) THEN topic.files
  ELSE visibleFiles(topic, s, fFile, fAnswer)

finalVisibleFiles(topic, s, fFile, fAnswer) ==
  IF matchTopicName(topic, s)
  THEN SelectSeq(topic.files,
                 LAMBDA f : matchFileStatus(f, fFile) /\ matchAnswerStatus(f, fAnswer))
  ELSE visibleFiles(topic, s, fFile, fAnswer)

\* shelf.topics.map(topic => ({...topic, visibleFiles, shouldShow})).filter(t => t.shouldShow)
processedTopics(topics, s, fTopic, fFile, fAnswer) ==
  SelectSeq(
    [i \in DOMAIN topics |->
       Merge(topics[i],
             [visibleFiles |-> finalVisibleFiles(topics[i], s, fFile, fAnswer),
              shouldShow   |-> shouldShow(topics[i], s, fTopic, fFile, fAnswer)])],
    LAMBDA t : t.shouldShow)

--------------------------------------------------------------------------
(* TopicItem: the Partial<Topic> each handler passes to onUpdate *)

HasRow(topic, rowId) == \E i \in DOMAIN topic.files : topic.files[i].id = rowId

RowById(topic, rowId) ==
  topic.files[CHOOSE i \in DOMAIN topic.files :
                topic.files[i].id = rowId
                /\ \A j \in 1..(i-1) : topic.files[j].id # rowId]

\* { files: [...topic.files, newRow] }
addNewRow(topic, rowId) ==
  [files |-> Append(topic.files, FileRow(rowId, NoFile, NoFile, FALSE))]

\* { files: topic.files.map(f => f.id === rowId ? { ...f, ...updates } : f) }
updateRow(topic, rowId, updates) ==
  [files |-> [i \in DOMAIN topic.files |->
                IF topic.files[i].id = rowId
                THEN Merge(topic.files[i], updates) ELSE topic.files[i]]]

\* { files: topic.files.filter(f => f.id !== rowId) }
deleteRow(topic, rowId) ==
  [files |-> SelectSeq(topic.files, LAMBDA f : f.id # rowId)]

PasteLimit == 50

\* text.substring(0, 50) + (text.length > 50 ? '...' : '')
PastedName(text) ==
  substring(text, PasteLimit)
  \o (IF Len(text) > PasteLimit THEN <<".", ".", ".">> ELSE <<>>)

\* handlePaste with plain text: { files: [...topic.files, newRow] }
handlePaste(topic, rowId, fileId, text) ==
  [files |-> Append(topic.files,
       FileRow(rowId, FileMeta(fileId, PastedName(text), "question", Undefined),
               NoFile, FALSE))]

\* The FileRow a file of processFiles resolves to
IngestedRow(rowId, fileId, name) ==
  FileRow(rowId, FileMeta(fileId, name, "question", Undefined), NoFile, FALSE)

\* A variant that appends the rows in the order their reads completed
\* (ids are handed out at completion)
processFilesAsCompleted(topic, newFileRows) ==
  [files |-> topic.files \o
     [i \in DOMAIN newFileRows |->
        newFileRows[CHOOSE j \in DOMAIN newFileRows :
           Cardinality({k \in DOMAIN newFileRows :
                          newFileRows[k].id < newFileRows[j].id}) = i - 1]]]

\* processFiles, after Promise.all: { files: [...topic.files, ...newFileRows] }
processFiles(topic, newFileRows) == [files |-> topic.files \o newFileRows]

\* newFiles.splice(fromIndex, 1); newFiles.splice(toIndex, 0, movedItem)
\* with 1-based positions
Spliced(files, fromIndex, toIndex) ==
  LET without == SubSeq(files, 1, fromIndex - 1)
                 \o SubSeq(files, fromIndex + 1, Len(files))
  IN SubSeq(without, 1, toIndex - 1) \o <<files[fromIndex]>>
     \o SubSeq(without, toIndex, Len(without))

\* handleRowDrop: nothing is updated unless both rows are found and differ
handleRowDrop(topic, draggedId, targetId) ==
  LET fromIndex == IF HasRow(topic, draggedId)
                   THEN CHOOSE i \in DOMAIN topic.files :
                          topic.files[i].id = draggedId
                          /\ \A j \in 1..(i-1) : topic.files[j].id # draggedId
                   ELSE 0
      toIndex == IF HasRow(topic, targetId)
                 THEN CHOOSE i \in DOMAIN topic.files :
                        topic.files[i].id = targetId
                        /\ \A j \in 1..(i-1) : topic.files[j].id # targetId
                 ELSE 0
  IN [files |-> Spliced(topic.files, fromIndex, toIndex)]

\* a.questionFile?.name || ''
SortName(row) == IF IsFile(row.questionFile) THEN row.questionFile.name ELSE <<>>

\* Array.prototype.sort with the comparator of sortFilesByName: a stable
\* insertion of each row after the rows that do not compare greater
RECURSIVE InsertSortedFirst(_, _)
InsertSortedFirst(sorted, row) ==
  IF sorted = <<>> THEN <<row>>
  ELSE IF localeCompare(SortName(Head(sorted)), SortName(row)) < 0
       THEN <<Head(sorted)>> \o InsertSortedFirst(Tail(sorted), row)
       ELSE <<row>> \o sorted

RECURSIVE InsertSorted(_, _)
InsertSorted(sorted, row) ==
  IF sorted = <<>> THEN <<row>>
  ELSE IF localeCompare(SortName(Head(sorted)), SortName(row)) <= 0
       THEN <<Head(sorted)>> \o InsertSorted(Tail(sorted), row)
       ELSE <<row>> \o sorted

RECURSIVE SortedRows(_)
SortedRows(files) ==
  IF files = <<>> THEN <<>>
  ELSE InsertSorted(SortedRows(SubSeq(files, 1, Len(files) - 1)), files[Len(files)])

sortFilesByName(topic) == [files |-> SortedRows(topic.files)]

\* The FileMeta handleFileUpload builds once the content is stored
UploadedMeta(fileId, name, type) == FileMeta(fileId, name, type, Undefined)

\* onUpdate({ questionFile: fileMeta }) / onUpdate({ answerFile: fileMeta })
SlotUpdate(type, value) ==
  IF type = "question" THEN [questionFile |-> value] ELSE [answerFile |-> value]

SlotOf(row, type) == IF type = "question" THEN row.questionFile ELSE row.answerFile

\* The chain onUpdate -> updateTopic -> updateShelf of the render whose
\* shelves are `shs`: the new value handed to setShelves
TopicUpdated(shs, shelfId, topicId, updates) ==
  updateShelf(shs, updateTopic(ShelfById(shs, shelfId), topicId, updates))

--------------------------------------------------------------------------
(* Inputs of the handlers *)

\* A File handed to an upload: its name and the data URL FileReader yields
InputFiles == {[name |-> <<"b">>, data |-> "data:b"]}

MaxBatch == 2     \* files of one processFiles call

\* The files of a multiple selection, in input order
FileList ==
  [i \in 1..MaxBatch |->
     IF i % 2 = 1 THEN [name |-> <<"b">>, data |-> "data:b"]
     ELSE [name |-> <<"a">>, data |-> "data:a"]]

Batches == {SubSeq(FileList, 1, n) : n \in 1..MaxBatch}

ShelfNames == {<<"s">>}      \* names typed into the sidebar input
TopicNames == {<<"A", "b">>} \* names typed into a topic's name input
Texts == {<<"a">>}           \* plain text pasted into a topic
Searches == {<<>>, <<"a">>, <<"B">>}
TopicFilters == {"all", "completed", "incomplete"}
FileFilters == {"all", "completed", "incomplete"}
AnswerFilters == {"all", "has", "no"}
MaxRenames == 1              \* name edits (a shelf's or a topic's)

--------------------------------------------------------------------------
(* The render the handlers close over *)

Rendered == booted /\ HasShelf(shelves, activeShelfId)

\* activeShelf of App, the `shelf` prop of ShelfDetail
activeShelf == ShelfById(shelves, activeShelfId)

\* The TopicItems on screen
Displayed == processedTopics(activeShelf.topics, search, filterTopic,
                             filterFile, filterAnswer)

\* The element of Displayed for topic `tid` (the `topic` prop of its TopicItem)
ItemOf(tid) == Displayed[CHOOSE i \in DOMAIN Displayed : Displayed[i].id = tid]

DisplayedTopicIds == {Displayed[i].id : i \in DOMAIN Displayed}

\* The rows of a TopicItem that have a FileRowItem on screen
DisplayedRowIds(tid) ==
  {ItemOf(tid).visibleFiles[i].id : i \in DOMAIN ItemOf(tid).visibleFiles}

\* Ids still to be drawn by the operations in flight
RECURSIVE FilesReserved(_)
FilesReserved(ops) ==
  IF ops = <<>> THEN 0
  ELSE FilesReserved(Tail(ops)) +
       (CASE Head(ops).kind = "upload" -> IF Head(ops).fileId = NoId THEN 1 ELSE 0
          [] Head(ops).kind = "ingest" ->
               Cardinality({i \in DOMAIN Head(ops).rows : Head(ops).rows[i].id = NoId})
          [] OTHER -> 0)

RECURSIVE RowsReserved(_)
RowsReserved(ops) ==
  IF ops = <<>> THEN 0
  ELSE RowsReserved(Tail(ops)) +
       (IF Head(ops).kind = "ingest"
        THEN Cardinality({i \in DOMAIN Head(ops).rows : Head(ops).rows[i].id = NoId})
        ELSE 0)

CanStart == Len(pending) < MaxPending /\ fresh.waits < MaxWaits

Started == [fresh EXCEPT !.waits = @ + 1]

RemoveAt(ops, k) == SubSeq(ops, 1, k - 1) \o SubSeq(ops, k + 1, Len(ops))

Op(name, arg) == [op |-> name, arg |-> arg]

NoRow == FileRow(NoId, NoFile, NoFile, FALSE)

--------------------------------------------------------------------------
(* Initial state: App constructed, nothing mounted yet *)

Init ==
  /\ shelves = <<>>
  /\ activeShelfId = NoId
  /\ booted = FALSE
  /\ storage \in {[kind |-> Absent], [kind |-> Corrupt]}
  /\ blobs = <<>>
  /\ pending = <<>>
  /\ fresh = [shelf |-> 0, topic |-> 0, row |-> 0, file |-> 0, rename |-> 0,
              waits |-> 0]
  /\ search = <<>>
  /\ filterTopic = "all"
  /\ filterFile = "all"
  /\ filterAnswer = "all"
  /\ lastOp = Op("init", <<>>)
  /\ added = {}
  /\ deleted = {}
  /\ quotaExceeded = FALSE
  /\ notice = NoAlert
  /\ link = Undefined
  /\ uncaught = FALSE

\* What an earlier session left behind.  A row of it is described by which
\* of its slots hold a file and by its completion flag; a slot holds
\* nothing, a FileMeta, or a FileMeta written with its content inline.
SlotKinds == {"null", "meta", "inline"}

StoredMeta(kind, id, name, type) ==
  IF kind = "null" THEN NoFile
  ELSE IF kind = "meta" THEN [id |-> id, name |-> name, type |-> type]
  ELSE FileMeta(id, name, type, "data:" \o type)

StoredRow(rid, k) ==
  FileRow(rid, StoredMeta(k.q, 2 * rid - 1, <<"a">>, "question"),
               StoredMeta(k.a, 2 * rid, <<"B">>, "answer"), k.done)

StoredTopicName(i) == IF i % 2 = 1 THEN <<"A", "b">> ELSE <<"c">>

\* The rows before topic i, when topic j holds counts[j] rows
RECURSIVE RowsBefore(_, _)
RowsBefore(counts, i) ==
  IF i <= 1 THEN 0 ELSE RowsBefore(counts, i - 1) + counts[i - 1]

\* The topic lists of at most maxTopics topics and MaxRows rows
Shapes(maxTopics) ==
  UNION {{c \in [1..n -> 0..MaxRows] : RowsBefore(c, n + 1) <= MaxRows}
         : n \in 1..maxTopics}

StoredTopics(counts, kinds) ==
  [i \in DOMAIN counts |->
     Topic(i, StoredTopicName(i),
           [j \in 1..counts[i] |->
              StoredRow(RowsBefore(counts, i) + j,
                        kinds[RowsBefore(counts, i) + j])])]

StoredDocs(rowKinds, maxTopics) ==
  UNION {{<<Shelf(DefaultShelfId, <<"D">>, StoredTopics(c, k))>>
          : k \in [1..RowsBefore(c, Len(c) + 1) -> rowKinds]}
         : c \in Shapes(maxTopics)}

\* Rows as this program writes them: empty, a question, or a question and
\* its answer
SessionRows ==
  {k \in [q : {"null", "meta"}, a : {"null", "meta"}, done : BOOLEAN] :
     k.a = "meta" => k.q = "meta"}

\* Rows as a build that kept the content inline wrote them
LegacyRows == [q : SlotKinds, a : {"null", "inline"}, done : {FALSE}]

\* The blobs of the files a document names
BlobsOf(doc) ==
  LET rows == UNION {Range(doc[1].topics[i].files) : i \in DOMAIN doc[1].topics}
      metas == {f \in UNION {{r.questionFile, r.answerFile} : r \in rows} :
                  IsFile(f) /\ ContentOf(f) = Undefined}
  IN [id \in {f.id : f \in metas} |-> IF id % 2 = 1 THEN "data:q" ELSE "data:a"]

\* App constructed over the storage `doc` was written to
InitStored(doc, text) ==
  /\ shelves = <<>>
  /\ activeShelfId = NoId
  /\ booted = FALSE
  /\ storage = text
  /\ blobs = BlobsOf(doc)
  /\ pending = <<>>
  /\ fresh = [shelf |-> 0, topic |-> Len(doc[1].topics),
              row |-> RowsBefore([i \in DOMAIN doc[1].topics |->
                                    Len(doc[1].topics[i].files)],
                                 Len(doc[1].topics) + 1),
              file |-> 2 * Max(MaxRows,
                               RowsBefore([i \in DOMAIN doc[1].topics |->
                                             Len(doc[1].topics[i].files)],
                                          Len(doc[1].topics) + 1)),
              rename |-> 0, waits |-> 0]
  /\ search = <<>>
  /\ filterTopic = "all"
  /\ filterFile = "all"
  /\ filterAnswer = "all"
  /\ lastOp = Op("init", <<>>)
  /\ added = {}
  /\ deleted = {}
  /\ quotaExceeded = FALSE
  /\ notice = NoAlert
  /\ link = Undefined
  /\ uncaught = FALSE

\* The second and later sessions: storage holds what saveToStorage wrote
InitSession ==
  \E doc \in StoredDocs(SessionRows, MaxTopics) : InitStored(doc, saveToStorage(doc))

\* The first session after a build that wrote content inline: storage
\* holds JSON.stringify of its document, content included
InitLegacy ==
  \E doc \in StoredDocs(LegacyRows, 1) : InitStored(doc, JSONstringify(doc))

\* Any session: the first one, one over an unreadable value, or a later one
BootRows == [q : {"meta"}, a : {"null", "meta"}, done : {FALSE}]

InitBoot ==
  \/ Init
  \/ \E doc \in StoredDocs(BootRows, MaxTopics) : InitStored(doc, saveToStorage(doc))

\* setShelves(next) followed by the save effect
SetShelves(next) ==
  /\ shelves' = next
  /\ storage' = SaveOutcome(quotaExceeded, next, storage)
  /\ notice' = SaveNotice(quotaExceeded, next, notice)

\* The two mount effects: load, then save of the loaded list
Boot ==
  /\ ~booted
  /\ booted' = TRUE
  /\ SetShelves(loadFromStorage(storage))
  /\ activeShelfId' = IF Len(loadFromStorage(storage)) > 0
                      THEN loadFromStorage(storage)[1].id ELSE activeShelfId
  /\ lastOp' = Op("boot", <<>>)
  /\ UNCHANGED <<blobs, pending, fresh, view, hist, env>>

--------------------------------------------------------------------------
(* Sidebar handlers *)

AddShelf(name) ==
  /\ booted
  /\ fresh.shelf < MaxShelves
  /\ fresh' = [fresh EXCEPT !.shelf = @ + 1]
  /\ SetShelves(handleAddShelf(shelves, fresh.shelf + 1, name))
  /\ activeShelfId' = fresh.shelf + 1
  /\ lastOp' = Op("addShelf", <<>>)
  /\ UNCHANGED <<booted, blobs, pending, view, hist, env>>

SelectShelf(id) ==
  /\ booted
  /\ HasShelf(shelves, id)
  /\ activeShelfId' = id
  /\ lastOp' = Op("select", <<>>)
  /\ UNCHANGED <<shelves, storage, booted, blobs, pending, fresh, view, hist, env, notice>>

RenameShelf(id, name) ==
  /\ booted
  /\ HasShelf(shelves, id)
  /\ fresh.rename < MaxRenames
  /\ fresh' = [fresh EXCEPT !.rename = @ + 1]
  /\ SetShelves(onUpdateName(shelves, id, name))
  /\ lastOp' = Op("renameShelf", <<>>)
  /\ UNCHANGED <<activeShelfId, booted, blobs, pending, view, hist, env>>

--------------------------------------------------------------------------
(* ShelfDetail handlers that do not wait *)

AddTopic ==
  /\ Rendered
  /\ search = <<>> /\ filterTopic = "all"
  /\ fresh.topic < MaxTopics
  /\ fresh' = [fresh EXCEPT !.topic = @ + 1]
  /\ SetShelves(updateShelf(shelves, addTopic(activeShelf, fresh.topic + 1)))
  /\ added' = added \cup {<<activeShelfId, fresh.topic + 1>>}
  /\ lastOp' = Op("addTopic", <<>>)
  /\ UNCHANGED <<activeShelfId, booted, blobs, pending, view, deleted, env>>

RenameTopic(tid, name) ==
  /\ Rendered
  /\ tid \in DisplayedTopicIds
  /\ fresh.rename < MaxRenames
  /\ fresh' = [fresh EXCEPT !.rename = @ + 1]
  /\ SetShelves(TopicUpdated(shelves, activeShelfId, tid, [name |-> name]))
  /\ lastOp' = Op("renameTopic", <<>>)
  /\ UNCHANGED <<activeShelfId, booted, blobs, pending, view, hist, env>>

\* onMoveUp / onMoveDown of the TopicItem at position `index` of the
\* displayed list: moveTopic(index, direction)
MoveTopic(index, direction) ==
  /\ Rendered
  /\ index \in 0..(Len(Displayed) - 1)
  /\ SetShelves(updateShelf(shelves, moveTopic(activeShelf, index, direction)))
  /\ lastOp' = Op("moveTopic", <<index, direction, Len(activeShelf.topics)>>)
  /\ UNCHANGED <<activeShelfId, booted, blobs, pending, fresh, view, hist, env>>

--------------------------------------------------------------------------
(* TopicItem and FileRowItem handlers that do not wait *)

AddRow(tid) ==
  /\ Rendered
  /\ tid \in DisplayedTopicIds
  /\ fresh.row + RowsReserved(pending) < MaxRows
  /\ fresh' = [fresh EXCEPT !.row = @ + 1]
  /\ SetShelves(TopicUpdated(shelves, activeShelfId, tid,
                             addNewRow(ItemOf(tid), fresh.row + 1)))
  /\ lastOp' = Op("addRow", <<>>)
  /\ UNCHANGED <<activeShelfId, booted, blobs, pending, view, hist, env>>

PasteText(tid, text) ==
  /\ Rendered
  /\ tid \in DisplayedTopicIds
  /\ text # <<>>
  /\ fresh.row + RowsReserved(pending) < MaxRows
  /\ fresh.file + FilesReserved(pending) < MaxFiles
  /\ fresh' = [fresh EXCEPT !.row = @ + 1, !.file = @ + 1]
  /\ SetShelves(TopicUpdated(shelves, activeShelfId, tid,
                  handlePaste(ItemOf(tid), fresh.row + 1, fresh.file + 1, text)))
  /\ lastOp' = Op("paste", <<>>)
  /\ UNCHANGED <<activeShelfId, booted, blobs, pending, view, hist, env>>

\* onUpdate({ isCompleted: !row.isCompleted })
ToggleRow(tid, rid) ==
  /\ Rendered
  /\ tid \in DisplayedTopicIds
  /\ rid \in DisplayedRowIds(tid)
  /\ SetShelves(TopicUpdated(shelves, activeShelfId, tid,
        updateRow(ItemOf(tid), rid,
                  [isCompleted |-> ~RowById(ItemOf(tid), rid).isCompleted])))
  /\ lastOp' = Op("toggle", <<>>)
  /\ UNCHANGED <<activeShelfId, booted, blobs, pending, fresh, view, hist, env>>

\* Rows are draggable only when canReorder
DropRow(tid, draggedId, targetId) ==
  /\ Rendered
  /\ tid \in DisplayedTopicIds
  /\ Len(ItemOf(tid).visibleFiles) = Len(ItemOf(tid).files)
  /\ draggedId \in DisplayedRowIds(tid)
  /\ targetId \in DisplayedRowIds(tid)
  /\ draggedId # targetId
  /\ SetShelves(TopicUpdated(shelves, activeShelfId, tid,
                             handleRowDrop(ItemOf(tid), draggedId, targetId)))
  /\ lastOp' = Op("drop", <<>>)
  /\ UNCHANGED <<activeShelfId, booted, blobs, pending, fresh, view, hist, env>>

SortRows(tid) ==
  /\ Rendered
  /\ tid \in DisplayedTopicIds
  /\ SetShelves(TopicUpdated(shelves, activeShelfId, tid, sortFilesByName(ItemOf(tid))))
  /\ lastOp' = Op("sort", <<>>)
  /\ UNCHANGED <<activeShelfId, booted, blobs, pending, fresh, view, hist, env>>

--------------------------------------------------------------------------
(* ShelfDetail filter controls *)

\* onChange of the search box: setSearch(e.target.value)
SetSearch(s) ==
  /\ Rendered
  /\ s # search
  /\ search' = s
  /\ UNCHANGED <<shelves, activeShelfId, booted, storage, blobs, pending, fresh,
                 filterTopic, filterFile, filterAnswer, lastOp, hist, env, notice>>

SetFilterTopic(v) ==
  /\ Rendered
  /\ v # filterTopic
  /\ filterTopic' = v
  /\ UNCHANGED <<shelves, activeShelfId, booted, storage, blobs, pending, fresh,
                 search, filterFile, filterAnswer, lastOp, hist, env, notice>>

SetFilterFile(v) ==
  /\ Rendered
  /\ v # filterFile
  /\ filterFile' = v
  /\ UNCHANGED <<shelves, activeShelfId, booted, storage, blobs, pending, fresh,
                 search, filterTopic, filterAnswer, lastOp, hist, env, notice>>

SetFilterAnswer(v) ==
  /\ Rendered
  /\ v # filterAnswer
  /\ filterAnswer' = v
  /\ UNCHANGED <<shelves, activeShelfId, booted, storage, blobs, pending, fresh,
                 search, filterTopic, filterFile, lastOp, hist, env, notice>>

\* The button of the empty result list, offered when the search or the
\* topic or row filter is set
ClearFilters ==
  /\ Rendered
  /\ Len(Displayed) = 0
  /\ ~(search = <<>> /\ filterTopic = "all" /\ filterFile = "all")
  /\ search' = <<>>
  /\ filterTopic' = "all"
  /\ filterFile' = "all"
  /\ filterAnswer' = "all"
  /\ UNCHANGED <<shelves, activeShelfId, booted, storage, blobs, pending, fresh,
                 lastOp, hist, env, notice>>

--------------------------------------------------------------------------
(* The environment *)

\* localStorage reaches its quota: from now on setItem throws
ExceedQuota ==
  /\ booted
  /\ ~quotaExceeded
  /\ quotaExceeded' = TRUE
  /\ UNCHANGED <<shelves, activeShelfId, booted, storage, blobs, pending, fresh,
                 view, lastOp, hist, notice, link, uncaught>>

--------------------------------------------------------------------------
(* Handlers that wait.  Each starts in the current render and keeps its    *)
(* shelves as `snap`; its continuation computes the new shelves from snap. *)

SnapShelf(op) == ShelfById(op.snap, op.sid)
SnapTopic(op) == TopicById(SnapShelf(op), op.tid)

DeleteKinds == {"deleteShelf", "deleteTopic", "deleteRow", "removeFile"}

DeleteOp(kind, sid, tid, rid, type, todo) ==
  [kind |-> kind, snap |-> shelves, sid |-> sid, tid |-> tid, rid |-> rid,
   type |-> type, todo |-> todo]

\* What each continuation hands to setShelves
DeleteShelfResult(op) == deleteShelf(op.snap, op.sid)

DeleteTopicResult(op) == updateShelf(op.snap, deleteTopic(SnapShelf(op), op.tid))

DeleteRowResult(op) ==
  TopicUpdated(op.snap, op.sid, op.tid, deleteRow(SnapTopic(op), op.rid))

RemoveFileResult(op) ==
  TopicUpdated(op.snap, op.sid, op.tid,
               updateRow(SnapTopic(op), op.rid, SlotUpdate(op.type, NoFile)))

UploadResult(op) ==
  TopicUpdated(op.snap, op.sid, op.tid,
     updateRow(SnapTopic(op), op.rid,
               SlotUpdate(op.type, UploadedMeta(op.fileId, op.file.name, op.type))))

IngestResult(op) ==
  TopicUpdated(op.snap, op.sid, op.tid, processFiles(SnapTopic(op), op.rows))

\* A variant that goes on whatever the answer
ConfirmIgnored(answer, done, kept) == done

\* if (window.confirm(...)) { ... }: the value of a state variable after the
\* handler, `done` when the body runs and `kept` when it does not
Confirm(answer, done, kept) == IF answer THEN done ELSE kept

\* The blob store once every listed file is released
RECURSIVE Released(_, _)
Released(store, ids) ==
  IF ids = <<>> THEN store
  ELSE Released(deleteFileContent(store, Head(ids)), Tail(ids))

\* deleteShelf, the confirmation declined
DeleteShelfDeclined(id) ==
  /\ booted
  /\ HasShelf(shelves, id)
  /\ shelves' = Confirm(FALSE, deleteShelf(shelves, id), shelves)
  /\ activeShelfId' = Confirm(FALSE, ActiveAfterDelete(deleteShelf(shelves, id)),
                              activeShelfId)
  /\ storage' = Confirm(FALSE, SaveOutcome(quotaExceeded, deleteShelf(shelves, id),
                                           storage), storage)
  /\ blobs' = Confirm(FALSE, Released(blobs, ShelfFileIds(ShelfById(shelves, id).topics)),
                      blobs)
  /\ lastOp' = Op("deleteShelfDeclined", <<>>)
  /\ UNCHANGED <<booted, pending, fresh, view, hist, env, notice>>

\* deleteTopic, the confirmation declined
DeleteTopicDeclined(tid) ==
  /\ Rendered
  /\ tid \in DisplayedTopicIds
  /\ shelves' = Confirm(FALSE, updateShelf(shelves, deleteTopic(activeShelf, tid)),
                        shelves)
  /\ storage' = Confirm(FALSE,
                        SaveOutcome(quotaExceeded,
                                    updateShelf(shelves, deleteTopic(activeShelf, tid)),
                                    storage), storage)
  /\ blobs' = Confirm(FALSE,
                      Released(blobs, TopicFileIds(TopicById(activeShelf, tid).files)),
                      blobs)
  /\ lastOp' = Op("deleteTopicDeclined", <<>>)
  /\ UNCHANGED <<activeShelfId, booted, pending, fresh, view, hist, env, notice>>

\* deleteShelf, confirmed.  With no file to release it never waits.
DeleteShelfStart(id) ==
  /\ booted
  /\ HasShelf(shelves, id)
  /\ LET op == DeleteOp("deleteShelf", id, NoId, NoId, "none",
                        ShelfFileIds(ShelfById(shelves, id).topics))
     IN IF op.todo = <<>>
        THEN /\ SetShelves(DeleteShelfResult(op))
             /\ activeShelfId' = ActiveAfterDelete(DeleteShelfResult(op))
             /\ UNCHANGED <<pending, fresh>>
        ELSE /\ CanStart
             /\ pending' = Append(pending, op)
             /\ fresh' = Started
             /\ UNCHANGED <<shelves, storage, activeShelfId, notice>>
  /\ lastOp' = Op("deleteShelf", <<>>)
  /\ UNCHANGED <<booted, blobs, view, hist, env>>

DeleteShelfFinish(k) ==
  /\ k \in DOMAIN pending
  /\ pending[k].kind = "deleteShelf"
  /\ pending[k].todo = <<>>
  /\ SetShelves(DeleteShelfResult(pending[k]))
  /\ activeShelfId' = ActiveAfterDelete(DeleteShelfResult(pending[k]))
  /\ pending' = RemoveAt(pending, k)
  /\ lastOp' = Op("deleteShelfDone", <<>>)
  /\ UNCHANGED <<booted, blobs, fresh, view, hist, env>>

\* deleteTopic, confirmed
DeleteTopicStart(tid) ==
  /\ Rendered
  /\ tid \in DisplayedTopicIds
  /\ LET op == DeleteOp("deleteTopic", activeShelfId, tid, NoId, "none",
                        TopicFileIds(TopicById(activeShelf, tid).files))
     IN IF op.todo = <<>>
        THEN /\ SetShelves(DeleteTopicResult(op))
             /\ deleted' = deleted \cup {tid}
             /\ UNCHANGED <<pending, fresh>>
        ELSE /\ CanStart
             /\ pending' = Append(pending, op)
             /\ fresh' = Started
             /\ UNCHANGED <<shelves, storage, deleted, notice>>
  /\ lastOp' = Op("deleteTopic", <<>>)
  /\ UNCHANGED <<activeShelfId, booted, blobs, view, added, env>>

DeleteTopicFinish(k) ==
  /\ k \in DOMAIN pending
  /\ pending[k].kind = "deleteTopic"
  /\ pending[k].todo = <<>>
  /\ SetShelves(DeleteTopicResult(pending[k]))
  /\ deleted' = deleted \cup {pending[k].tid}
  /\ pending' = RemoveAt(pending, k)
  /\ lastOp' = Op("deleteTopicDone", <<>>)
  /\ UNCHANGED <<activeShelfId, booted, blobs, fresh, view, added, env>>

\* handleDelete of a row
DeleteRowStart(tid, rid) ==
  /\ Rendered
  /\ tid \in DisplayedTopicIds
  /\ rid \in DisplayedRowIds(tid)
  /\ LET op == DeleteOp("deleteRow", activeShelfId, tid, rid, "none",
                        RowFileIds(RowById(ItemOf(tid), rid)))
     IN IF op.todo = <<>>
        THEN /\ SetShelves(DeleteRowResult(op))
             /\ UNCHANGED <<pending, fresh>>
        ELSE /\ CanStart
             /\ pending' = Append(pending, op)
             /\ fresh' = Started
             /\ UNCHANGED <<shelves, storage, notice>>
  /\ lastOp' = Op("deleteRow", <<>>)
  /\ UNCHANGED <<activeShelfId, booted, blobs, view, hist, env>>

DeleteRowFinish(k) ==
  /\ k \in DOMAIN pending
  /\ pending[k].kind = "deleteRow"
  /\ pending[k].todo = <<>>
  /\ SetShelves(DeleteRowResult(pending[k]))
  /\ pending' = RemoveAt(pending, k)
  /\ lastOp' = Op("deleteRowDone", <<>>)
  /\ UNCHANGED <<activeShelfId, booted, blobs, fresh, view, hist, env>>

\* handleRemoveFile of a filled slot
RemoveFileStart(tid, rid, type) ==
  /\ Rendered
  /\ tid \in DisplayedTopicIds
  /\ rid \in DisplayedRowIds(tid)
  /\ IsFile(SlotOf(RowById(ItemOf(tid), rid), type))
  /\ CanStart
  /\ pending' = Append(pending,
        DeleteOp("removeFile", activeShelfId, tid, rid, type,
                 <<SlotOf(RowById(ItemOf(tid), rid), type).id>>))
  /\ fresh' = Started
  /\ lastOp' = Op("removeFile", <<>>)
  /\ UNCHANGED <<shelves, storage, activeShelfId, booted, blobs, view, hist, env, notice>>

RemoveFileFinish(k) ==
  /\ k \in DOMAIN pending
  /\ pending[k].kind = "removeFile"
  /\ pending[k].todo = <<>>
  /\ SetShelves(RemoveFileResult(pending[k]))
  /\ pending' = RemoveAt(pending, k)
  /\ lastOp' = Op("removeFileDone", <<>>)
  /\ UNCHANGED <<activeShelfId, booted, blobs, fresh, view, hist, env>>

\* One awaited deleteFileContent of a deletion in flight takes effect
ReleaseBlob(k) ==
  /\ k \in DOMAIN pending
  /\ pending[k].kind \in DeleteKinds
  /\ pending[k].todo # <<>>
  /\ blobs' = deleteFileContent(blobs, Head(pending[k].todo))
  /\ pending' = [pending EXCEPT ![k].todo = Tail(@)]
  /\ lastOp' = Op("release", <<>>)
  /\ UNCHANGED <<shelves, storage, activeShelfId, booted, fresh, view, hist, env, notice>>

\* The database cannot be opened: deleteFileContent catches the rejection
\* of openDB, logs it and resolves; the handler goes on, the blob stays
ReleaseBlobUnavailable(k) ==
  /\ k \in DOMAIN pending
  /\ pending[k].kind \in DeleteKinds
  /\ pending[k].todo # <<>>
  /\ pending' = [pending EXCEPT ![k].todo = Tail(@)]
  /\ lastOp' = Op("releaseUnavailable", <<>>)
  /\ UNCHANGED <<shelves, storage, activeShelfId, booted, blobs, fresh, view, hist,
                 env, notice>>

\* The delete request fails: the promise deleteFileContent returns from
\* inside its try block rejects after the function has returned, so the
\* rejection reaches the awaiting handler, which has no catch and ends there
ReleaseBlobRejected(k) ==
  /\ k \in DOMAIN pending
  /\ pending[k].kind \in DeleteKinds
  /\ pending[k].todo # <<>>
  /\ pending' = RemoveAt(pending, k)
  /\ uncaught' = TRUE
  /\ lastOp' = Op("releaseRejected", <<>>)
  /\ UNCHANGED <<shelves, storage, activeShelfId, booted, blobs, fresh, view, hist,
                 quotaExceeded, link, notice>>

\* handleFileUpload: the file input exists only while the slot is empty
UploadStart(tid, rid, type, file) ==
  /\ Rendered
  /\ tid \in DisplayedTopicIds
  /\ rid \in DisplayedRowIds(tid)
  /\ ~IsFile(SlotOf(RowById(ItemOf(tid), rid), type))
  /\ CanStart
  /\ fresh.file + FilesReserved(pending) < MaxFiles
  /\ pending' = Append(pending,
        [kind |-> "upload", snap |-> shelves, sid |-> activeShelfId, tid |-> tid,
         rid |-> rid, type |-> type, file |-> file, fileId |-> NoId])
  /\ fresh' = Started
  /\ lastOp' = Op("upload", <<>>)
  /\ UNCHANGED <<shelves, storage, activeShelfId, booted, blobs, view, hist, env, notice>>

\* reader.onload: a fresh id, and saveFileContent takes effect
UploadStore(k) ==
  /\ k \in DOMAIN pending
  /\ pending[k].kind = "upload"
  /\ pending[k].fileId = NoId
  /\ fresh' = [fresh EXCEPT !.file = @ + 1]
  /\ blobs' = saveFileContent(blobs, fresh.file + 1, pending[k].file.data)
  /\ pending' = [pending EXCEPT ![k].fileId = fresh.file + 1]
  /\ lastOp' = Op("uploadStored", <<>>)
  /\ UNCHANGED <<shelves, storage, activeShelfId, booted, view, hist, env, notice>>

\* The database cannot be opened: saveFileContent logs and resolves, the
\* handler goes on with a FileMeta whose content was not stored
UploadStoreUnavailable(k) ==
  /\ k \in DOMAIN pending
  /\ pending[k].kind = "upload"
  /\ pending[k].fileId = NoId
  /\ fresh' = [fresh EXCEPT !.file = @ + 1]
  /\ pending' = [pending EXCEPT ![k].fileId = fresh.file + 1]
  /\ lastOp' = Op("uploadUnavailable", <<>>)
  /\ UNCHANGED <<shelves, storage, activeShelfId, booted, blobs, view, hist, env,
                 notice>>

\* The put request fails: the rejection leaves the onload handler uncaught
\* and onUpdate is never called
UploadStoreRejected(k) ==
  /\ k \in DOMAIN pending
  /\ pending[k].kind = "upload"
  /\ pending[k].fileId = NoId
  /\ pending' = RemoveAt(pending, k)
  /\ uncaught' = TRUE
  /\ lastOp' = Op("uploadRejected", <<>>)
  /\ UNCHANGED <<shelves, storage, activeShelfId, booted, blobs, fresh, view, hist,
                 quotaExceeded, link, notice>>

\* The continuation after await saveFileContent: onUpdate of the slot
UploadFinish(k) ==
  /\ k \in DOMAIN pending
  /\ pending[k].kind = "upload"
  /\ pending[k].fileId # NoId
  /\ SetShelves(UploadResult(pending[k]))
  /\ pending' = RemoveAt(pending, k)
  /\ lastOp' = Op("uploadDone", <<>>)
  /\ UNCHANGED <<activeShelfId, booted, blobs, fresh, view, hist, env>>

\* processFiles(files) with files.length > 0
IngestStart(tid, files) ==
  /\ Rendered
  /\ tid \in DisplayedTopicIds
  /\ Len(files) > 0
  /\ CanStart
  /\ fresh.file + FilesReserved(pending) + Len(files) <= MaxFiles
  /\ fresh.row + RowsReserved(pending) + Len(files) <= MaxRows
  /\ pending' = Append(pending,
        [kind |-> "ingest", snap |-> shelves, sid |-> activeShelfId, tid |-> tid,
         files |-> files, rows |-> [i \in DOMAIN files |-> NoRow]])
  /\ fresh' = Started
  /\ lastOp' = Op("ingest", <<>>)
  /\ UNCHANGED <<shelves, storage, activeShelfId, booted, blobs, view, hist, env, notice>>

\* reader.onload of the i-th file: fresh ids, saveFileContent takes effect,
\* and the file's promise resolves to its row
IngestStore(k, i) ==
  /\ k \in DOMAIN pending
  /\ pending[k].kind = "ingest"
  /\ i \in DOMAIN pending[k].rows
  /\ pending[k].rows[i].id = NoId
  /\ fresh' = [fresh EXCEPT !.file = @ + 1, !.row = @ + 1]
  /\ blobs' = saveFileContent(blobs, fresh.file + 1, pending[k].files[i].data)
  /\ pending' = [pending EXCEPT ![k].rows[i] =
                   IngestedRow(fresh.row + 1, fresh.file + 1, pending[k].files[i].name)]
  /\ lastOp' = Op("ingestStored", <<>>)
  /\ UNCHANGED <<shelves, storage, activeShelfId, booted, view, hist, env, notice>>

\* The put request of the i-th file fails: its onload handler ends with an
\* uncaught rejection before resolve, the file's promise never settles and
\* Promise.all never calls its continuation.  The reads still to come of
\* the same batch are not followed further.
IngestStoreRejected(k, i) ==
  /\ k \in DOMAIN pending
  /\ pending[k].kind = "ingest"
  /\ i \in DOMAIN pending[k].rows
  /\ pending[k].rows[i].id = NoId
  /\ pending' = RemoveAt(pending, k)
  /\ uncaught' = TRUE
  /\ lastOp' = Op("ingestRejected", <<>>)
  /\ UNCHANGED <<shelves, storage, activeShelfId, booted, blobs, fresh, view, hist,
                 quotaExceeded, link, notice>>

\* Promise.all(filePromises).then(...)
IngestFinish(k) ==
  /\ k \in DOMAIN pending
  /\ pending[k].kind = "ingest"
  /\ \A i \in DOMAIN pending[k].rows : pending[k].rows[i].id # NoId
  /\ SetShelves(IngestResult(pending[k]))
  /\ pending' = RemoveAt(pending, k)
  /\ lastOp' = Op("ingestDone", <<>>)
  /\ UNCHANGED <<activeShelfId, booted, blobs, fresh, view, hist, env>>

--------------------------------------------------------------------------
(* The whole application *)

\* handleDownload with the content it found: a variant that clicks the
\* link whatever it found
handleDownloadSilent(content) == [href |-> content, alert |-> NoAlert]

\* handleDownload with the content it found: the alert, or the link clicked
handleDownload(content) ==
  IF content = Undefined THEN [href |-> Undefined, alert |-> NotFoundAlert]
  ELSE [href |-> content, alert |-> NoAlert]

Downloaded(content) ==
  /\ link' = handleDownload(content).href
  /\ notice' = IF handleDownload(content).alert = NoAlert THEN notice
               ELSE handleDownload(content).alert

\* handleDownload of a FileMeta that holds its content: no wait
DownloadInline(tid, rid, type) ==
  /\ Rendered
  /\ tid \in DisplayedTopicIds
  /\ rid \in DisplayedRowIds(tid)
  /\ IsFile(SlotOf(RowById(ItemOf(tid), rid), type))
  /\ ContentOf(SlotOf(RowById(ItemOf(tid), rid), type)) # Undefined
  /\ Downloaded(ContentOf(SlotOf(RowById(ItemOf(tid), rid), type)))
  /\ lastOp' = Op("downloadInline", <<>>)
  /\ UNCHANGED <<shelves, storage, activeShelfId, booted, blobs, pending, fresh,
                 view, hist, quotaExceeded, uncaught>>

\* handleDownload of a FileMeta without content: await getFileContent
DownloadStart(tid, rid, type) ==
  /\ Rendered
  /\ tid \in DisplayedTopicIds
  /\ rid \in DisplayedRowIds(tid)
  /\ IsFile(SlotOf(RowById(ItemOf(tid), rid), type))
  /\ ContentOf(SlotOf(RowById(ItemOf(tid), rid), type)) = Undefined
  /\ CanStart
  /\ pending' = Append(pending,
        [kind |-> "download", file |-> SlotOf(RowById(ItemOf(tid), rid), type)])
  /\ fresh' = Started
  /\ lastOp' = Op("download", <<>>)
  /\ UNCHANGED <<shelves, storage, activeShelfId, booted, blobs, view, hist, env, notice>>

\* store.get(file.id) takes effect and the handler goes on
DownloadRead(k) ==
  /\ k \in DOMAIN pending
  /\ pending[k].kind = "download"
  /\ Downloaded(getFileContent(blobs, pending[k].file.id))
  /\ pending' = RemoveAt(pending, k)
  /\ lastOp' = Op("downloadRead", <<>>)
  /\ UNCHANGED <<shelves, storage, activeShelfId, booted, blobs, fresh, view, hist,
                 quotaExceeded, uncaught>>

\* The database cannot be opened (getFileContent resolves undefined) or the
\* get request fails (the rejection is caught by handleDownload): the
\* handler goes on without content
DownloadReadFailed(k) ==
  /\ k \in DOMAIN pending
  /\ pending[k].kind = "download"
  /\ Downloaded(Undefined)
  /\ pending' = RemoveAt(pending, k)
  /\ lastOp' = Op("downloadFailed", <<>>)
  /\ UNCHANGED <<shelves, storage, activeShelfId, booted, blobs, fresh, view, hist,
                 quotaExceeded, uncaught>>

ShelfIds == 0..MaxShelves
TopicIds == 1..MaxTopics
RowIds == 1..MaxRows
Slots == {"question", "answer"}
Directions == {"up", "down"}
OpSlots == 1..MaxPending

Next ==
  \/ Boot
  \/ \E n \in ShelfNames : AddShelf(n)
  \/ \E id \in ShelfIds : SelectShelf(id)
  \/ \E id \in ShelfIds, n \in ShelfNames : RenameShelf(id, n)
  \/ \E id \in ShelfIds : DeleteShelfStart(id)
  \/ \E k \in OpSlots : DeleteShelfFinish(k)
  \/ AddTopic
  \/ \E t \in TopicIds, n \in TopicNames : RenameTopic(t, n)
  \/ \E i \in 0..(MaxTopics - 1), d \in Directions : MoveTopic(i, d)
  \/ \E t \in TopicIds : DeleteTopicStart(t)
  \/ \E k \in OpSlots : DeleteTopicFinish(k)
  \/ \E t \in TopicIds : AddRow(t)
  \/ \E t \in TopicIds, x \in Texts : PasteText(t, x)
  \/ \E t \in TopicIds, r \in RowIds : ToggleRow(t, r)
  \/ \E t \in TopicIds, r \in RowIds, q \in RowIds : DropRow(t, r, q)
  \/ \E t \in TopicIds : SortRows(t)
  \/ \E t \in TopicIds, r \in RowIds : DeleteRowStart(t, r)
  \/ \E k \in OpSlots : DeleteRowFinish(k)
  \/ \E t \in TopicIds, r \in RowIds, s \in Slots : RemoveFileStart(t, r, s)
  \/ \E k \in OpSlots : RemoveFileFinish(k)
  \/ \E k \in OpSlots : ReleaseBlob(k)
  \/ \E t \in TopicIds, r \in RowIds, s \in Slots, f \in InputFiles :
        UploadStart(t, r, s, f)
  \/ \E k \in OpSlots : UploadStore(k)
  \/ \E k \in OpSlots : UploadFinish(k)
  \/ \E t \in TopicIds, b \in Batches : IngestStart(t, b)
  \/ \E k \in OpSlots, i \in 1..MaxBatch : IngestStore(k, i)
  \/ \E k \in OpSlots : IngestFinish(k)
  \/ \E s \in Searches : SetSearch(s)
  \/ \E v \in TopicFilters : SetFilterTopic(v)
  \/ \E v \in FileFilters : SetFilterFile(v)
  \/ \E v \in AnswerFilters : SetFilterAnswer(v)
  \/ ClearFilters
  \/ ExceedQuota
  \/ \E id \in ShelfIds : DeleteShelfDeclined(id)
  \/ \E t \in TopicIds : DeleteTopicDeclined(t)
  \/ \E k \in OpSlots : ReleaseBlobUnavailable(k)
  \/ \E k \in OpSlots : ReleaseBlobRejected(k)
  \/ \E k \in OpSlots : UploadStoreUnavailable(k)
  \/ \E k \in OpSlots : UploadStoreRejected(k)
  \/ \E k \in OpSlots, i \in 1..MaxBatch : IngestStoreRejected(k, i)
  \/ \E t \in TopicIds, r \in RowIds, s \in Slots : DownloadInline(t, r, s)
  \/ \E t \in TopicIds, r \in RowIds, s \in Slots : DownloadStart(t, r, s)
  \/ \E k \in OpSlots : DownloadRead(k)
  \/ \E k \in OpSlots : DownloadReadFailed(k)

Spec == Init /\ [][Next]_vars

--------------------------------------------------------------------------
(* Sessions that use part of the handlers.  Every behaviour of one of      *)
(* these specifications is a behaviour of Spec.                            *)

\* addTopic, deleteTopic and moveTopic on the default shelf; pasted rows
\* give deleteTopic files whose release it awaits
NextTopics ==
  \/ Boot
  \/ AddTopic
  \/ \E t \in TopicIds, x \in Texts : PasteText(t, x)
  \/ \E i \in 0..(MaxTopics - 1), d \in Directions : MoveTopic(i, d)
  \/ \E t \in TopicIds : DeleteTopicStart(t)
  \/ \E k \in OpSlots : ReleaseBlob(k)
  \/ \E k \in OpSlots : DeleteTopicFinish(k)

SpecTopics == Init /\ [][NextTopics]_vars

\* The handlers of shelves and topics while no topic holds a row: none of
\* them waits
NextStructure ==
  \/ Boot
  \/ \E n \in ShelfNames : AddShelf(n)
  \/ \E id \in ShelfIds : SelectShelf(id)
  \/ \E id \in ShelfIds, n \in ShelfNames : RenameShelf(id, n)
  \/ \E id \in ShelfIds : DeleteShelfStart(id)
  \/ AddTopic
  \/ \E t \in TopicIds, n \in TopicNames : RenameTopic(t, n)
  \/ \E i \in 0..(MaxTopics - 1), d \in Directions : MoveTopic(i, d)
  \/ \E t \in TopicIds : DeleteTopicStart(t)

SpecStructure == Init /\ [][NextStructure]_vars

\* The topics of several shelves, none holding a row: adding, moving and
\* deleting them never waits
NextMove ==
  \/ Boot
  \/ \E n \in ShelfNames : AddShelf(n)
  \/ \E id \in ShelfIds : SelectShelf(id)
  \/ AddTopic
  \/ \E i \in 0..(MaxTopics - 1), d \in Directions : MoveTopic(i, d)
  \/ \E t \in TopicIds : DeleteTopicStart(t)

SpecMove == Init /\ [][NextMove]_vars

\* The rows of one topic: rows added, files uploaded singly and in batches,
\* slots cleared, rows deleted, and the topic and its shelf deleted
NextRows ==
  \/ Boot
  \/ fresh.topic = 0 /\ AddTopic
  \/ \E t \in TopicIds : AddRow(t)
  \/ \E t \in TopicIds, x \in Texts : PasteText(t, x)
  \/ \E t \in TopicIds, r \in RowIds, s \in Slots, f \in InputFiles :
        UploadStart(t, r, s, f)
  \/ \E k \in OpSlots : UploadStore(k)
  \/ \E k \in OpSlots : UploadFinish(k)
  \/ \E t \in TopicIds, b \in Batches : IngestStart(t, b)
  \/ \E k \in OpSlots, i \in 1..MaxBatch : IngestStore(k, i)
  \/ \E k \in OpSlots : IngestFinish(k)
  \/ \E t \in TopicIds, r \in RowIds, s \in Slots : RemoveFileStart(t, r, s)
  \/ \E k \in OpSlots : RemoveFileFinish(k)
  \/ \E t \in TopicIds, r \in RowIds : DeleteRowStart(t, r)
  \/ \E k \in OpSlots : DeleteRowFinish(k)
  \/ \E t \in TopicIds : DeleteTopicStart(t)
  \/ \E k \in OpSlots : DeleteTopicFinish(k)
  \/ \E id \in ShelfIds : DeleteShelfStart(id)
  \/ \E k \in OpSlots : DeleteShelfFinish(k)
  \/ \E k \in OpSlots : ReleaseBlob(k)

SpecRows == Init /\ [][NextRows]_vars

\* A later session that only looks: the stored document is loaded and the
\* search box and the three filters are operated
NextFilter ==
  \/ Boot
  \/ \E s \in Searches : SetSearch(s)
  \/ \E v \in TopicFilters : SetFilterTopic(v)
  \/ \E v \in FileFilters : SetFilterFile(v)
  \/ \E v \in AnswerFilters : SetFilterAnswer(v)
  \/ ClearFilters

SpecFilter == InitSession /\ [][NextFilter]_vars

\* The first session over a document whose files were written with their
\* content: it is loaded, a topic is renamed, rows are ticked and sorted
NextStore ==
  \/ Boot
  \/ \E t \in TopicIds, n \in TopicNames : RenameTopic(t, n)
  \/ \E t \in TopicIds, r \in RowIds : ToggleRow(t, r)
  \/ \E t \in TopicIds : SortRows(t)

SpecStore == InitLegacy /\ [][NextStore]_vars

\* The first session over a stored document, in which a shelf and a topic
\* are added and rows are ticked next to the stored ones
NextRoundTrip ==
  \/ Boot
  \/ \E n \in ShelfNames : AddShelf(n)
  \/ \E id \in ShelfIds : SelectShelf(id)
  \/ \E t \in TopicIds, r \in RowIds : ToggleRow(t, r)
  \/ \E t \in TopicIds : SortRows(t)

SpecRoundTrip == InitLegacy /\ [][NextRoundTrip]_vars

\* A session during which the storage quota is reached
NextQuota ==
  \/ Boot
  \/ ExceedQuota
  \/ \E n \in ShelfNames : AddShelf(n)
  \/ fresh.topic = 0 /\ AddTopic
  \/ \E t \in TopicIds : AddRow(t)
  \/ \E t \in TopicIds, r \in RowIds : ToggleRow(t, r)

SpecQuota == Init /\ [][NextQuota]_vars

\* The rows of one topic while the blob store fails: uploads, batches and
\* row deletions whose put and delete calls may fail
NextBlobFaults ==
  \/ Boot
  \/ fresh.topic = 0 /\ AddTopic
  \/ \E t \in TopicIds : AddRow(t)
  \/ \E t \in TopicIds, r \in RowIds, s \in Slots, f \in InputFiles :
        UploadStart(t, r, s, f)
  \/ \E k \in OpSlots : UploadStore(k)
  \/ \E k \in OpSlots : UploadStoreUnavailable(k)
  \/ \E k \in OpSlots : UploadStoreRejected(k)
  \/ \E k \in OpSlots : UploadFinish(k)
  \/ \E t \in TopicIds, b \in Batches : IngestStart(t, b)
  \/ \E k \in OpSlots, i \in 1..MaxBatch : IngestStore(k, i)
  \/ \E k \in OpSlots, i \in 1..MaxBatch : IngestStoreRejected(k, i)
  \/ \E k \in OpSlots : IngestFinish(k)
  \/ \E t \in TopicIds, r \in RowIds : DeleteRowStart(t, r)
  \/ \E k \in OpSlots : ReleaseBlob(k)
  \/ \E k \in OpSlots : ReleaseBlobUnavailable(k)
  \/ \E k \in OpSlots : ReleaseBlobRejected(k)
  \/ \E k \in OpSlots : DeleteRowFinish(k)

SpecBlobFaults == Init /\ [][NextBlobFaults]_vars

\* Any session from its mount on: shelves are added and selected, topics
\* and rows are added
NextBoot ==
  \/ Boot
  \/ \E n \in ShelfNames : AddShelf(n)
  \/ \E id \in ShelfIds : SelectShelf(id)
  \/ AddTopic
  \/ \E t \in TopicIds : AddRow(t)

SpecBoot == InitBoot /\ [][NextBoot]_vars

\* Deletions asked for and declined, over stored and added shelves and
\* topics
NextConfirm ==
  \/ Boot
  \/ \E n \in ShelfNames : AddShelf(n)
  \/ \E id \in ShelfIds : SelectShelf(id)
  \/ AddTopic
  \/ \E id \in ShelfIds : DeleteShelfDeclined(id)
  \/ \E t \in TopicIds : DeleteTopicDeclined(t)

SpecConfirm == InitBoot /\ [][NextConfirm]_vars

\* Batches ingested into one topic, next to rows added, pasted and ticked
NextIngest ==
  \/ Boot
  \/ fresh.topic = 0 /\ AddTopic
  \/ \E t \in TopicIds : AddRow(t)
  \/ \E t \in TopicIds, r \in RowIds : ToggleRow(t, r)
  \/ \E t \in TopicIds, x \in Texts : PasteText(t, x)
  \/ \E t \in TopicIds, b \in Batches : IngestStart(t, b)
  \/ \E k \in OpSlots, i \in 1..MaxBatch : IngestStore(k, i)
  \/ \E k \in OpSlots : IngestFinish(k)

SpecIngest == Init /\ [][NextIngest]_vars

--------------------------------------------------------------------------
(* C1 *)

TopicIdsOf(shelf) == {shelf.topics[j].id : j \in DOMAIN shelf.topics}

\* C1: whatever the interleaving of addTopic, deleteTopic (with its awaited
\* blob releases) and moveTopic, each shelf holds exactly the topics ever
\* added to it minus those whose deleteTopic has completed, each once.
C1_TopicSetIsAddedMinusDeleted ==
  \A i \in DOMAIN shelves :
     /\ TopicIdsOf(shelves[i])
          = {t \in TopicIds : <<shelves[i].id, t>> \in added} \ deleted
     /\ Cardinality(TopicIdsOf(shelves[i])) = Len(shelves[i].topics)

--------------------------------------------------------------------------
(* C2 *)

\* The rows topic `tid` of shelf `sid` holds in the document `shs`
RowsIn(shs, sid, tid) ==
  IF HasShelf(shs, sid) /\ HasTopic(ShelfById(shs, sid), tid)
  THEN TopicById(ShelfById(shs, sid), tid).files
  ELSE <<>>

RowIdsIn(shs, sid, tid) == {r.id : r \in Range(RowsIn(shs, sid, tid))}

\* C2: when an ingestion completes, the topic's row list holds every row it
\* held just before (those added while the files were read and stored
\* included) and every ingested row.
C2_IngestionKeepsConcurrentRows ==
  [][\A k \in OpSlots :
        IngestFinish(k) =>
          /\ RowIdsIn(shelves, pending[k].sid, pending[k].tid)
                \subseteq RowIdsIn(shelves', pending[k].sid, pending[k].tid)
          /\ {r.id : r \in Range(pending[k].rows)}
                \subseteq RowIdsIn(shelves', pending[k].sid, pending[k].tid)]_vars

--------------------------------------------------------------------------
(* C3 *)

\* The FileMeta ids a node of the current document holds
HeldByRow(sid, tid, rid) ==
  {f \in Range(TopicFileIds(
        SelectSeq(RowsIn(shelves, sid, tid), LAMBDA r : r.id = rid))) : TRUE}

HeldBySlot(sid, tid, rid, type) ==
  {SlotOf(r, type).id :
     r \in {x \in Range(RowsIn(shelves, sid, tid)) :
              x.id = rid /\ IsFile(SlotOf(x, type))}}

HeldByTopic(sid, tid) == Range(TopicFileIds(RowsIn(shelves, sid, tid)))

HeldByShelf(sid) ==
  IF HasShelf(shelves, sid)
  THEN Range(ShelfFileIds(ShelfById(shelves, sid).topics)) ELSE {}

Stored == DOMAIN blobs

\* C3: at the step that removes a row, a slot's file, a topic or a shelf
\* from the document, the blob store holds no entry under a FileMeta id of
\* the node removed, before the step and after it.
C3_RemovalReleasesBlobs ==
  [][\A k \in OpSlots :
        /\ DeleteRowFinish(k) =>
              HeldByRow(pending[k].sid, pending[k].tid, pending[k].rid)
                \cap (Stored \cup Stored') = {}
        /\ RemoveFileFinish(k) =>
              HeldBySlot(pending[k].sid, pending[k].tid, pending[k].rid,
                         pending[k].type) \cap (Stored \cup Stored') = {}
        /\ DeleteTopicFinish(k) =>
              HeldByTopic(pending[k].sid, pending[k].tid)
                \cap (Stored \cup Stored') = {}
        /\ DeleteShelfFinish(k) =>
              HeldByShelf(pending[k].sid) \cap (Stored \cup Stored') = {}]_vars

--------------------------------------------------------------------------
(* C4 *)

\* The ids of the questionFile and answerFile of every row of the document
DocumentFileIds ==
  UNION {Range(ShelfFileIds(shelves[i].topics)) : i \in DOMAIN shelves}

\* C4: whenever no file read, blob put or blob delete is pending, every key
\* of the blob store is the id of a file of some row of the document.
C4_NoOrphanedBlobs == pending = <<>> => Stored \subseteq DocumentFileIds

--------------------------------------------------------------------------
(* C5 *)

\* C5: after every mutation of the document (the mount effects have run),
\* the value under the structural key is the content-stripped serialization
\* of the current shelf list, the empty list included, so that loading it
\* yields the current shelves.
C5_WriteThrough ==
  booted =>
    /\ storage = saveToStorage(shelves)
    /\ loadFromStorage(storage) = JSONstringify(cleanData(shelves)).value

--------------------------------------------------------------------------
(* C6 *)

\* The FileMetas of a stored list of shelves
StoredFiles(value) ==
  UNION {UNION {UNION {{value[i].topics[j].files[k].questionFile,
                        value[i].topics[j].files[k].answerFile}
                       : k \in DOMAIN value[i].topics[j].files}
                : j \in DOMAIN value[i].topics}
         : i \in DOMAIN value}

MemoryFiles == StoredFiles(shelves)

\* C6: once the program has written the structural key, no FileMeta of the
\* stored value carries content, whatever content the FileMetas in memory
\* hold.
C6_StoredValueHasNoContent ==
  (booted /\ storage.kind = "json") =>
     \A f \in StoredFiles(storage.value) :
        IsFile(f) => "content" \notin DOMAIN f

\* C6 witness: a FileMeta in memory holds content, the document has been
\* edited and written, and the stored FileMeta of the same id has none.
C6_Witness ==
  /\ booted
  /\ lastOp.op = "toggle"
  /\ \E f \in MemoryFiles :
        /\ IsFile(f)
        /\ ContentOf(f) # Undefined
        /\ \E g \in StoredFiles(storage.value) :
              g.id = f.id /\ "content" \notin DOMAIN g

--------------------------------------------------------------------------
(* C7, C8, C9 *)

\* Case-insensitive containment, stated on substrings
ContainsText(name, text) ==
  \E i \in 1..(Len(name) + 1), j \in 0..Len(name) :
     SubSeq(toLowerCase(name), i, j) = toLowerCase(text)

NameMatches(t) == search # <<>> /\ ContainsText(t.name, search)

StatusOk(r) ==
  /\ filterFile = "completed" => r.isCompleted
  /\ filterFile = "incomplete" => ~r.isCompleted
  /\ filterAnswer = "has" => IsFile(r.answerFile)
  /\ filterAnswer = "no" => ~IsFile(r.answerFile)

TextOk(r) ==
  \/ search = <<>>
  \/ IsFile(r.questionFile) /\ ContainsText(r.questionFile.name, search)
  \/ IsFile(r.answerFile) /\ ContainsText(r.answerFile.name, search)

IdsOf(rows) == {rows[i].id : i \in DOMAIN rows}

\* The rows the program computes for a topic, and the rows on screen
ComputedRows(t) == IdsOf(finalVisibleFiles(t, search, filterFile, filterAnswer))

\* If topic t is among the TopicItems `shown`, its rows on screen are `ids`
ShownAs(shown, t, ids) ==
  \A i \in DOMAIN shown : shown[i].id = t.id => IdsOf(shown[i].visibleFiles) = ids

Topics == Range(activeShelf.topics)

\* C7: when the search is non-empty and the topic name contains it, the
\* visible rows of the topic are exactly the rows that pass both status
\* filters, whether or not their file names contain the search.
C7_NameMatchKeepsStatusFilters ==
  Rendered =>
    LET shown == Displayed
    IN \A t \in Topics :
         NameMatches(t) =>
           LET eligible == {r.id : r \in {x \in Range(t.files) : StatusOk(x)}}
           IN ComputedRows(t) = eligible /\ ShownAs(shown, t, eligible)

\* C7 witness: the name matches, a status filter is set, one row is shown
\* although its file names do not contain the search, another is hidden by
\* the status filter although its file name contains it.
C7_Witness ==
  /\ Rendered
  /\ filterFile = "completed"
  /\ \E t \in Topics :
        /\ NameMatches(t)
        /\ t.id \in DisplayedTopicIds
        /\ \E r \in Range(t.files) :
              ~TextOk(r) /\ r.id \in DisplayedRowIds(t.id)
        /\ \E r \in Range(t.files) :
              TextOk(r) /\ r.id \notin DisplayedRowIds(t.id)

\* R1 (completed, has answer) followed by R2 (not completed, no answer)
IsScenario(t) ==
  /\ Len(t.files) = 2
  /\ t.files[1].isCompleted /\ IsFile(t.files[1].answerFile)
  /\ ~t.files[2].isCompleted /\ ~IsFile(t.files[2].answerFile)

\* C8: when the topic name does not match the search, or the search is
\* empty, the visible rows are exactly the rows that pass the row filter,
\* the answer filter and the text test; with rows R1 and R2 and an empty
\* search, row filter 'completed' shows R1 only, answer filter 'no' shows R2
\* only, and both together show nothing.
C8_RowLevelFilter ==
  Rendered =>
    LET shown == Displayed
    IN \A t \in Topics :
         ~NameMatches(t) =>
           /\ LET passing == {r.id : r \in {x \in Range(t.files) :
                                               StatusOk(x) /\ TextOk(x)}}
              IN ComputedRows(t) = passing /\ ShownAs(shown, t, passing)
           /\ (IsScenario(t) /\ search = <<>>) =>
                /\ (filterFile = "completed" /\ filterAnswer = "all")
                      => ComputedRows(t) = {t.files[1].id}
                /\ (filterFile = "all" /\ filterAnswer = "no")
                      => ComputedRows(t) = {t.files[2].id}
                /\ (filterFile = "completed" /\ filterAnswer = "no")
                      => ComputedRows(t) = {}

\* C8 witness: R1 and R2 under row filter 'completed' and answer filter
\* 'no' with an empty search.
C8_Witness ==
  /\ Rendered
  /\ search = <<>>
  /\ filterFile = "completed"
  /\ filterAnswer = "no"
  /\ \E t \in Topics : IsScenario(t) /\ ComputedRows(t) = {}

\* topicCompleted of the filter rule: at least one row, and every row of
\* the full list completed
TopicCompleted(t) ==
  t.files # <<>> /\ \A r \in Range(t.files) : r.isCompleted

TopicFilterOk(t) ==
  /\ filterTopic = "completed" => TopicCompleted(t)
  /\ filterTopic = "incomplete" => ~TopicCompleted(t)

\* The visible rows of the filter rule
VisibleRows(t) ==
  {r \in Range(t.files) : StatusOk(r) /\ (NameMatches(t) \/ TextOk(r))}

\* C9: a topic is shown iff the topic filter matches topicCompleted and,
\* with an empty search, both row filters are 'all' or a row is visible;
\* with a search, the name matches or a row is visible.
C9_TopicLevelFilter ==
  Rendered =>
    LET shownIds == DisplayedTopicIds
    IN \A t \in Topics :
         t.id \in shownIds <=>
           /\ TopicFilterOk(t)
           /\ IF search = <<>>
              THEN (filterFile = "all" /\ filterAnswer = "all") \/ VisibleRows(t) # {}
              ELSE NameMatches(t) \/ VisibleRows(t) # {}

\* C9 witness: under topic filter 'completed' and row filter 'completed' a
\* topic whose visible rows are all completed is hidden because a row of
\* its full list is not, and an empty topic is hidden.
C9_Witness ==
  /\ Rendered
  /\ filterTopic = "completed"
  /\ filterFile = "completed"
  /\ \E t \in Topics :
        /\ VisibleRows(t) # {}
        /\ \E r \in Range(t.files) : ~r.isCompleted
        /\ t.id \notin DisplayedTopicIds
  /\ \E t \in Topics : t.files = <<>> /\ t.id \notin DisplayedTopicIds

--------------------------------------------------------------------------
(* C10 *)

AtBoundary(index, direction) ==
  \/ direction = "up" /\ index = 0
  \/ direction = "down" /\ index = Len(activeShelf.topics) - 1

\* C10: a moveTopic step with direction 'up' at index 0, or 'down' at the
\* last index, leaves the shelf's topic list, and every other shelf, as
\* they were.
C10_MoveAtBoundaryIsNoOp ==
  [][\A i \in 0..(MaxTopics - 1), d \in Directions :
        (MoveTopic(i, d) /\ AtBoundary(i, d)) => shelves' = shelves]_vars

\* moveTopic(last, 'down') has run on a shelf of at least two topics while
\* the document holds another shelf
C10_Witness ==
  /\ lastOp.op = "moveTopic"
  /\ lastOp.arg[2] = "down"
  /\ lastOp.arg[3] >= 2
  /\ lastOp.arg[1] = lastOp.arg[3] - 1
  /\ \E i \in DOMAIN shelves : shelves[i].id # activeShelfId

--------------------------------------------------------------------------
(* C11 *)

\* Two file slots hold the same file, content apart
SameSlot(f, g) ==
  /\ IsFile(f) = IsFile(g)
  /\ IsFile(f) => (f.id = g.id /\ f.name = g.name /\ f.type = g.type)

SameRow(r, q) ==
  /\ r.id = q.id
  /\ r.isCompleted = q.isCompleted
  /\ SameSlot(r.questionFile, q.questionFile)
  /\ SameSlot(r.answerFile, q.answerFile)

SameTopic(t, u) ==
  /\ t.id = u.id
  /\ t.name = u.name
  /\ Len(t.files) = Len(u.files)
  /\ \A k \in DOMAIN t.files : SameRow(t.files[k], u.files[k])

SameShelf(a, b) ==
  /\ a.id = b.id
  /\ a.name = b.name
  /\ Len(a.topics) = Len(b.topics)
  /\ \A j \in DOMAIN a.topics : SameTopic(a.topics[j], b.topics[j])

SameDocument(x, y) ==
  /\ Len(x) = Len(y)
  /\ \A i \in DOMAIN x : SameShelf(x[i], y[i])

\* C11: for every non-empty document, what loadFromStorage returns after
\* the document was saved has the same shelves, topics and rows in the same
\* order, with the same ids, names, isCompleted flags and file slots, and
\* no content.
C11_RoundTrip ==
  (booted /\ shelves # <<>>) =>
     /\ SameDocument(loadFromStorage(storage), shelves)
     /\ SameDocument(loadFromStorage(saveToStorage(shelves)), shelves)
     /\ \A f \in StoredFiles(loadFromStorage(storage)) : ContentOf(f) = Undefined

\* C11 witness: two shelves, a topic with a completed and an incomplete
\* row, one with and one without an answer, content held in memory, saved
\* after an edit.
C11_Witness ==
  /\ booted
  /\ Len(shelves) = 2
  /\ lastOp.op = "toggle"
  /\ \E t \in Range(shelves[1].topics) :
        /\ \E r \in Range(t.files) : r.isCompleted /\ IsFile(r.answerFile)
                                      /\ ContentOf(r.answerFile) # Undefined
        /\ \E r \in Range(t.files) : ~r.isCompleted /\ ~IsFile(r.answerFile)

--------------------------------------------------------------------------
(* C12 *)

\* C12: a step that sets a non-empty shelf list while the structural write
\* fails shows the warning, leaves the stored value as it was and lets no
\* error escape, and the mutation applies in memory as it would have: a
\* shelf, topic or row is added, a row's flag is flipped.
C12_FailedWriteIsSoft ==
  [][quotaExceeded =>
       /\ (shelves' # shelves /\ shelves' # <<>>) =>
             (storage' = storage /\ notice' = QuotaAlert /\ uncaught' = uncaught)
       /\ \A n \in ShelfNames :
             AddShelf(n) => shelves' = handleAddShelf(shelves, fresh.shelf + 1, n)
       /\ AddTopic => Len(ShelfById(shelves', activeShelfId).topics)
                        = Len(activeShelf.topics) + 1
       /\ \A t \in TopicIds :
             AddRow(t) => Len(TopicById(ShelfById(shelves', activeShelfId), t).files)
                           = Len(TopicById(activeShelf, t).files) + 1
       /\ \A t \in TopicIds, r \in RowIds :
             ToggleRow(t, r) =>
               RowById(TopicById(ShelfById(shelves', activeShelfId), t), r).isCompleted
                 = ~RowById(TopicById(activeShelf, t), r).isCompleted
  ]_vars

\* C12 witness: the quota is reached, the warning has been shown, a row
\* was ticked afterwards and is ticked in memory, and the stored value is
\* still the one of before the failure.
C12_Witness ==
  /\ quotaExceeded
  /\ notice = QuotaAlert
  /\ ~uncaught
  /\ lastOp.op = "toggle"
  /\ storage.kind = "json"
  /\ storage # saveToStorage(shelves)
  /\ \E t \in Range(activeShelf.topics) : \E r \in Range(t.files) : r.isCompleted

--------------------------------------------------------------------------
(* C13 *)

\* C13: a blob-store call that fails (the database cannot be opened, a put
\* or delete request fails) lets no error escape and leaves its handler
\* in flight, so that the deletion still removes its node and the upload or
\* ingestion still makes its document update.
C13_BlobFailureIsSoft ==
  [][\A k \in OpSlots :
       (\/ ReleaseBlobUnavailable(k)
        \/ ReleaseBlobRejected(k)
        \/ UploadStoreUnavailable(k)
        \/ UploadStoreRejected(k)
        \/ \E i \in 1..MaxBatch : IngestStoreRejected(k, i))
       => (~uncaught' /\ Len(pending') = Len(pending))
  ]_vars

--------------------------------------------------------------------------
(* C14 *)

ShelfIdsIn(shs) == {shs[i].id : i \in DOMAIN shs}

TopicIdsIn(shs) ==
  UNION {{<<shs[i].id, shs[i].topics[j].id>> : j \in DOMAIN shs[i].topics}
         : i \in DOMAIN shs}

RowIdsOfDocument(shs) ==
  UNION {UNION {{shs[i].topics[j].files[k].id : k \in DOMAIN shs[i].topics[j].files}
                : j \in DOMAIN shs[i].topics}
         : i \in DOMAIN shs}

--------------------------------------------------------------------------
(* C15 *)

\* C15: when the confirmation of deleteShelf or deleteTopic is declined,
\* the document, the active shelf selection, the structural store and the
\* blob store are unchanged.
C15_DeclinedDeleteChangesNothing ==
  [][/\ \A id \in ShelfIds :
          DeleteShelfDeclined(id) => UNCHANGED <<shelves, activeShelfId, storage, blobs>>
     /\ \A t \in TopicIds :
          DeleteTopicDeclined(t) => UNCHANGED <<shelves, activeShelfId, storage, blobs>>
  ]_vars

\* C15 witness: the deletion of a topic whose rows hold stored files was
\* just declined, and the topic, its rows and their blobs are there.
C15_Witness ==
  /\ lastOp.op = "deleteTopicDeclined"
  /\ Rendered
  /\ \E t \in Range(activeShelf.topics) :
        /\ TopicFileIds(t.files) # <<>>
        /\ Range(TopicFileIds(t.files)) \subseteq DOMAIN blobs
  /\ storage = saveToStorage(shelves)

--------------------------------------------------------------------------
(* C16 *)

\* C16: when an ingestion of files f1..fn completes, the topic's rows are
\* the rows the topic had when processFiles was called, in their order,
\* followed by exactly n rows in input order, whatever order the reads and
\* blob writes completed in; the i-th new row has a questionFile named
\* after fi, an empty answer slot and isCompleted = false.
C16_IngestAppendsInInputOrder ==
  [][\A k \in OpSlots :
       IngestFinish(k) =>
         LET op == pending[k]
             old == SnapTopic(op).files
             new == TopicById(ShelfById(shelves', op.sid), op.tid).files
         IN /\ Len(new) = Len(old) + Len(op.files)
            /\ SubSeq(new, 1, Len(old)) = old
            /\ \A i \in DOMAIN op.files :
                  /\ IsFile(new[Len(old) + i].questionFile)
                  /\ new[Len(old) + i].questionFile.name = op.files[i].name
                  /\ new[Len(old) + i].questionFile.type = "question"
                  /\ ~IsFile(new[Len(old) + i].answerFile)
                  /\ ~new[Len(old) + i].isCompleted
            /\ Cardinality({new[j].id : j \in DOMAIN new}) = Len(new)
  ]_vars

\* C16 witness: a batch of two files has completed, the second file's read
\* and write finished first (it drew the smaller ids), and its row is the
\* last one.
C16_Witness ==
  /\ lastOp.op = "ingestDone"
  /\ Rendered
  /\ \E t \in Range(activeShelf.topics) :
        /\ Len(t.files) >= 2
        /\ t.files[Len(t.files) - 1].questionFile.name = FileList[1].name
        /\ t.files[Len(t.files)].questionFile.name = FileList[2].name
        /\ t.files[Len(t.files)].id < t.files[Len(t.files) - 1].id

--------------------------------------------------------------------------
(* C17: sortFilesByName *)

\* What the questions of the rows of a stored topic are called; the empty
\* name stands for a row without a question
SortNames == {<<>>, <<"a">>, <<"A">>, <<"b">>, <<"a", "b">>}

NamedRow(rid, name) ==
  FileRow(rid,
          IF name = <<>> THEN NoFile
          ELSE StoredMeta("meta", 2 * rid - 1, name, "question"),
          NoFile, FALSE)

\* One topic of at most MaxSortRows rows, in any order of names
NamedDocs ==
  UNION {{<<Shelf(DefaultShelfId, <<"D">>,
                  <<Topic(1, StoredTopicName(1),
                          [j \in 1..n |-> NamedRow(j, names[j])])>>)>>
          : names \in [1..n -> SortNames]}
         : n \in 0..MaxSortRows}

InitSort == \E doc \in NamedDocs : InitStored(doc, saveToStorage(doc))

NextSort ==
  \/ Boot
  \/ \E t \in TopicIds : SortRows(t)

SpecSort == InitSort /\ [][NextSort]_vars

\* The name a row is sorted under
QuestionName(row) ==
  IF row.questionFile = NoFile THEN <<>> ELSE row.questionFile.name

\* Where the row with this id stands in a row list
PlaceOf(files, rid) == CHOOSE i \in DOMAIN files : files[i].id = rid

\* C17: sortFilesByName leaves a permutation of the topic's rows, ordered
\* non-decreasingly by question name with the rows without a question
\* first, rows of equal names in their previous order, and sorting the
\* result again changes nothing.
C17_SortIsStablePermutation ==
  [][\A t \in TopicIds :
       SortRows(t) =>
         LET old == ItemOf(t).files
             new == TopicById(ShelfById(shelves', activeShelfId), t).files
         IN /\ Len(new) = Len(old)
            /\ Range(new) = Range(old)
            /\ \A i, j \in DOMAIN new :
                 i < j => localeCompare(QuestionName(new[i]), QuestionName(new[j])) <= 0
            /\ \A i, j \in DOMAIN new :
                 (i < j /\ new[j].questionFile = NoFile) => new[i].questionFile = NoFile
            /\ \A i, j \in DOMAIN old :
                 (i < j /\ localeCompare(QuestionName(old[i]), QuestionName(old[j])) = 0)
                    => PlaceOf(new, old[i].id) < PlaceOf(new, old[j].id)
            /\ SortedRows(new) = new
    ]_vars

\* A sort that moved a row past two rows of one name that kept their order,
\* and put a row without a question first
C17_Witness ==
  /\ lastOp.op = "sort"
  /\ Rendered
  /\ \E t \in DOMAIN Displayed :
       LET files == Displayed[t].files
       IN /\ Len(files) = 3
          /\ files[1].questionFile = NoFile
          /\ files[1].id = 3
          /\ QuestionName(files[2]) = <<"a">>
          /\ QuestionName(files[3]) = <<"a">>
          /\ files[2].id < files[3].id

--------------------------------------------------------------------------
(* C18: handleDownload *)

\* Rows whose question was written with its content inline
InlineRows == [q : {"inline"}, a : {"null"}, done : {FALSE}]

\* Rows of a question and its answer, both in the blob store
PairRows == [q : {"meta"}, a : {"meta"}, done : {FALSE}]

\* A session over nothing, over what this program wrote, or over a topic
\* written with content inline
InitDownload ==
  \/ Init
  \/ \E doc \in StoredDocs(PairRows, 1) : InitStored(doc, saveToStorage(doc))
  \/ \E doc \in StoredDocs(InlineRows, 1) : InitStored(doc, JSONstringify(doc))

\* Files pasted, questions removed, files downloaded
NextDownload ==
  \/ Boot
  \/ fresh.topic = 0 /\ AddTopic
  \/ \E t \in TopicIds, x \in Texts : PasteText(t, x)
  \/ \E t \in TopicIds, r \in RowIds : RemoveFileStart(t, r, "question")
  \/ \E k \in OpSlots : ReleaseBlob(k)
  \/ \E k \in OpSlots : RemoveFileFinish(k)
  \/ \E t \in TopicIds, r \in RowIds, s \in Slots : DownloadInline(t, r, s)
  \/ \E t \in TopicIds, r \in RowIds, s \in Slots : DownloadStart(t, r, s)
  \/ \E k \in OpSlots : DownloadRead(k)
  \/ \E k \in OpSlots : DownloadReadFailed(k)

SpecDownload == InitDownload /\ [][NextDownload]_vars

\* C18: a download that finds no content, in memory or in the blob store,
\* or whose read fails, ends with the "not found" notice and no link; a
\* download that reads a blob clicks a link to exactly that content; no
\* download changes the document, the storage or the blob store.
C18_DownloadFindsOrReports ==
  [][\A k \in OpSlots :
       /\ DownloadRead(k) =>
            /\ pending[k].file.id \notin DOMAIN blobs =>
                 notice' = NotFoundAlert /\ link' = Undefined
            /\ pending[k].file.id \in DOMAIN blobs =>
                 link' = blobs[pending[k].file.id] /\ notice' = notice
            /\ shelves' = shelves /\ blobs' = blobs /\ storage' = storage
       /\ DownloadReadFailed(k) =>
            /\ notice' = NotFoundAlert /\ link' = Undefined
            /\ shelves' = shelves /\ blobs' = blobs /\ storage' = storage
    ]_vars

\* A download of a file whose blob had been released reported it, in a
\* row whose other file still has its blob
C18_Witness ==
  /\ lastOp.op = "downloadRead"
  /\ notice = NotFoundAlert
  /\ link = Undefined
  /\ booted
  /\ \E sh \in Range(shelves) : \E t \in Range(sh.topics) :
       \E r \in Range(t.files) :
          /\ IsFile(r.questionFile)
          /\ r.questionFile.id \notin DOMAIN blobs
          /\ IsFile(r.answerFile)
          /\ r.answerFile.id \in DOMAIN blobs

--------------------------------------------------------------------------
(* C19: the active shelf *)

\* Shelves added, selected and deleted while rows are added and files are
\* uploaded to them
NextActive ==
  \/ Boot
  \/ \E n \in ShelfNames : AddShelf(n)
  \/ \E id \in ShelfIds : SelectShelf(id)
  \/ fresh.topic = 0 /\ AddTopic
  \/ \E t \in TopicIds : AddRow(t)
  \/ \E t \in TopicIds, r \in RowIds, s \in Slots, f \in InputFiles :
        UploadStart(t, r, s, f)
  \/ \E k \in OpSlots : UploadStore(k)
  \/ \E k \in OpSlots : UploadFinish(k)
  \/ \E id \in ShelfIds : DeleteShelfStart(id)
  \/ \E k \in OpSlots : ReleaseBlob(k)
  \/ \E k \in OpSlots : DeleteShelfFinish(k)

SpecActive == Init /\ [][NextActive]_vars

\* C19: once the load effect has run, the active shelf id names a shelf of
\* the document whenever the document has a shelf, and is empty only when
\* the document has none.
C19_ActiveShelfIsPresent ==
  booted =>
    /\ shelves # <<>> => HasShelf(shelves, activeShelfId)
    /\ activeShelfId = NoId => shelves = <<>>

--------------------------------------------------------------------------
(* C20: the completion of handleFileUpload *)

\* The document `shs` with only the slot of upload `op` written, and left
\* as it is when the row of the upload is no longer in it
SlotWritten(shs, op) ==
  IF /\ HasShelf(shs, op.sid)
     /\ HasTopic(ShelfById(shs, op.sid), op.tid)
     /\ HasRow(TopicById(ShelfById(shs, op.sid), op.tid), op.rid)
  THEN TopicUpdated(shs, op.sid, op.tid,
          updateRow(TopicById(ShelfById(shs, op.sid), op.tid), op.rid,
                    SlotUpdate(op.type,
                               UploadedMeta(op.fileId, op.file.name, op.type))))
  ELSE shs

\* C20: the completion of an upload leaves the document as it was just
\* before, with only the slot of its row written; every change made since
\* the upload started is kept and nothing deleted since comes back.
C20_UploadWritesOnlyItsSlot ==
  [][\A k \in OpSlots :
       UploadFinish(k) => shelves' = SlotWritten(shelves, pending[k])]_vars

--------------------------------------------------------------------------
(* C21: moveTopic under a filter *)

\* Topics added, rows added and ticked, the topic filter set, and topics
\* moved by the controls of the TopicItems on screen
NextReorder ==
  \/ Boot
  \/ AddTopic
  \/ \E t \in TopicIds : AddRow(t)
  \/ \E t \in TopicIds, r \in RowIds : ToggleRow(t, r)
  \/ \E v \in TopicFilters : SetFilterTopic(v)
  \/ \E i \in 0..(MaxTopics - 1), d \in Directions : MoveTopic(i, d)

SpecReorder == Init /\ [][NextReorder]_vars

\* Where the topic with this id stands in a topic list, 1-based
TopicPlace(topics, tid) == CHOOSE p \in DOMAIN topics : topics[p].id = tid

\* The topic list after the topic at place p has changed places with its
\* neighbour in the direction given, or as it is when there is none
NeighbourSwapped(topics, p, direction) ==
  IF direction = "up" /\ p > 1 THEN Swap(topics, p, p - 1)
  ELSE IF direction = "down" /\ p < Len(topics) THEN Swap(topics, p, p + 1)
  ELSE topics

\* C21: the move control of the TopicItem at position i of the displayed
\* list moves the topic that TopicItem shows: in the shelf's full topic
\* list that topic changes places with its neighbour and no other topic
\* changes position, whatever the filters hide.
C21_MoveActsOnInvokedTopic ==
  [][\A i \in 0..(MaxTopics - 1), d \in Directions :
       MoveTopic(i, d) =>
         ShelfById(shelves', activeShelfId).topics =
           NeighbourSwapped(activeShelf.topics,
                            TopicPlace(activeShelf.topics, Displayed[i + 1].id), d)
    ]_vars

==========================================================================
